---- MODULE Spec2Model ----
(***************************************************************************)
(* The per-method path router of blaze (src/unnamed/part_001): the trie    *)
(* built by Router.handle / Router.insert and walked by Router.lookup.     *)
(*                                                                         *)
(* Go strings are modelled as sequences of one-character strings, so that  *)
(* strings.TrimPrefix, strings.Trim, strings.Split, strings.HasPrefix and  *)
(* strings.Join are computed character by character as the library does.   *)
(* A *node is modelled by its value; a Go map by a function whose DOMAIN   *)
(* is the set of keys present.                                             *)
(***************************************************************************)
EXTENDS Integers, Sequences, FiniteSets, TLC

(***************************************************************************)
(* Bounds of the model.                                                    *)
(***************************************************************************)
\* the number of Router.handle calls a behaviour makes
MaxCalls == 2

\* the number of concurrent Router.lookup calls of the serving phase
MaxInFlight == 2

(***************************************************************************)
(* The inputs.                                                             *)
(***************************************************************************)
\* method strings: compared by Go map key equality, so "GET" and "get" differ
Methods == {"GET", "get"}

\* handler references; NoHandler is the nil HandlerFunc
NoHandler == 0
Handlers == {1, 2}

\* the path patterns handed to Router.handle: the root, literal routes (one
\* written without a leading and with a trailing slash), routes with one and
\* with two parameters, and a route ending in a wildcard
Patterns ==
    { <<"/">>,
      <<"/", "a">>,
      <<"a", "/", "b", "/">>,
      <<"/", "a", "/", ":", "x">>,
      <<"/", ":", "x", "/", "b">>,
      <<"/", ":", "x", "/", ":", "y">>,
      <<"/", "a", "/", "*", "w">> }

\* the request paths handed to Router.lookup
Queries ==
    { <<"/">>,
      <<"/", "/">>,
      <<"/", "a">>,
      <<"a", "/">>,
      <<"/", "b">>,
      <<"/", "a", "/", "b">>,
      <<"/", "a", "/", "c">>,
      <<"/", "a", "/", ":">>,
      <<"/", "c", "/", "b">>,
      <<"/", "c", "/", "c">>,
      <<"/", "a", "/", "b", "/", "c">>,
      <<"/", "a", "/", "/", "b">> }

\* the patterns of the wildcard runs: wildcard routes under a literal and under
\* a parameter, two wildcard names at one position, a pattern that goes on
\* after its wildcard, and a literal and a parameter route beside them
WildPatterns ==
    { <<"/", "a", "/", "*", "w">>,
      <<"/", "a", "/", "*", "v">>,
      <<"/", "a", "/", "*", "w", "/", "b">>,
      <<"/", ":", "x", "/", "*", "w">>,
      <<"/", "a", "/", "b">>,
      <<"/", "a", "/", ":", "x">> }

\* the request paths of the wildcard runs
WildQueries ==
    { <<"/", "a">>,
      <<"/", "a", "/">>,
      <<"/", "c">>,
      <<"/", "a", "/", "b">>,
      <<"/", "a", "/", "c">>,
      <<"/", "a", "/", "*">>,
      <<"/", "a", "/", ":">>,
      <<"/", "c", "/", "b">>,
      <<"/", "a", "/", "c", "/", "b">>,
      <<"/", "a", "/", "b", "/", "c">>,
      <<"/", "a", "/", "/", "b">>,
      <<"/", "c", "/", "b", "/", "c", "/">> }

(***************************************************************************)
(* package strings                                                         *)
(***************************************************************************)
\* strings.HasPrefix(s, prefix) for a one-character prefix
HasPrefix(s, prefix) == Len(s) >= 1 /\ s[1] = prefix

\* strings.TrimPrefix(s, prefix) for a one-character prefix: removes it once
TrimPrefix(s, prefix) == IF HasPrefix(s, prefix) THEN Tail(s) ELSE s

RECURSIVE TrimLeft(_, _)
\* strings.TrimLeft(s, cutset) for a one-character cutset
TrimLeft(s, cutset) ==
    IF s # << >> /\ s[1] = cutset THEN TrimLeft(Tail(s), cutset) ELSE s

RECURSIVE TrimRight(_, _)
\* strings.TrimRight(s, cutset) for a one-character cutset
TrimRight(s, cutset) ==
    IF s # << >> /\ s[Len(s)] = cutset
    THEN TrimRight(SubSeq(s, 1, Len(s) - 1), cutset)
    ELSE s

\* strings.Trim(s, cutset): every leading and trailing cutset character goes
Trim(s, cutset) == TrimRight(TrimLeft(s, cutset), cutset)

\* strings.Index(s, sep) for a one-character sep, 1-based; 0 when absent
Index(s, sep) ==
    IF \E i \in 1..Len(s) : s[i] = sep
    THEN CHOOSE i \in 1..Len(s) : s[i] = sep /\ \A j \in 1..(i - 1) : s[j] # sep
    ELSE 0

RECURSIVE Split(_, _)
\* strings.Split(s, sep): the pieces between the separators, empty pieces kept
Split(s, sep) ==
    LET i == Index(s, sep)
    IN  IF i = 0 THEN <<s>>
        ELSE <<SubSeq(s, 1, i - 1)>> \o Split(SubSeq(s, i + 1, Len(s)), sep)

RECURSIVE Join(_, _)
\* strings.Join(elems, sep) for a one-character sep
Join(elems, sep) ==
    IF elems = << >> THEN << >>
    ELSE IF Len(elems) = 1 THEN elems[1]
    ELSE elems[1] \o <<sep>> \o Join(Tail(elems), sep)

(***************************************************************************)
(* Go maps map[string]string                                               *)
(***************************************************************************)
\* make(map[string]string); a nil map reads the same
EmptyMap == [k \in {} |-> << >>]

\* m[key] = value
MapPut(m, key, value) ==
    [k \in DOMAIN m \cup {key} |-> IF k = key THEN value ELSE m[k]]

(***************************************************************************)
(* The trie                                                                *)
(***************************************************************************)
\* &node{}: the zero value of node
newNode ==
    [path |-> << >>, handler |-> NoHandler, children |-> << >>,
     param |-> << >>, wildcard |-> FALSE]

\* the child Router.insert creates for a pattern segment that has none
createChild(seg) ==
    IF HasPrefix(seg, ":")
    THEN [newNode EXCEPT !.param = Tail(seg), !.path = <<":">>]
    ELSE IF HasPrefix(seg, "*")
    THEN [newNode EXCEPT !.wildcard = TRUE, !.path = <<"*">>, !.param = Tail(seg)]
    ELSE [newNode EXCEPT !.path = seg]

\* the first of the children whose indices are in S, as an index into
\* children; 0 is nil: the loops over n.children return at their first match
FirstChild(S) ==
    IF S = {} THEN 0 ELSE CHOOSE i \in S : \A j \in S : i <= j

\* the indices of the children of n
ChildIndices(n) == 1..Len(n.children)

\* Router.findChild: the child a pattern segment descends into
findChild(n, seg) ==
    FirstChild({i \in ChildIndices(n) :
        \/ n.children[i].path = seg
        \/ n.children[i].path = <<":">> /\ HasPrefix(seg, ":")})

\* splitPath that trims the leading slashes only
splitPath_keepTrailing(path) ==
    LET p == TrimLeft(path, "/")
    IN  IF p = << >> THEN << >> ELSE Split(p, "/")

\* splitPath without the trimming
splitPath_noTrim(path) ==
    IF path = << >> THEN << >> ELSE Split(path, "/")

\* splitPath
splitPath(path) ==
    LET p == Trim(path, "/")
    IN  IF p = << >> THEN << >> ELSE Split(p, "/")

RECURSIVE insertLoop(_, _, _)
\* the loop of Router.insert from node current on, and the final assignment
insertLoop(current, segments, handler) ==
    IF segments = << >>
    THEN [current EXCEPT !.handler = handler]
    ELSE LET seg == Head(segments)
             i   == findChild(current, seg)
         IN  IF i = 0
             THEN [current EXCEPT !.children =
                      Append(@, insertLoop(createChild(seg), Tail(segments), handler))]
             ELSE [current EXCEPT !.children[i] =
                      insertLoop(@, Tail(segments), handler)]

\* Router.insert: the tree root after the pattern is added
insert(root, path, handler) ==
    LET p == TrimPrefix(path, "/")
    IN  IF p = << >>
        THEN [root EXCEPT !.handler = handler]
        ELSE insertLoop(root, splitPath(p), handler)

\* Router.matchChild with the parameter loop run before the exact-match loop
matchChild_paramFirst(n, seg, params) ==
    LET e == FirstChild({i \in ChildIndices(n) : n.children[i].path = seg})
        p == FirstChild({i \in ChildIndices(n) : n.children[i].path = <<":">>})
        w == FirstChild({i \in ChildIndices(n) : n.children[i].wildcard})
    IN  IF p # 0
        THEN [child |-> p, params |-> MapPut(params, n.children[p].param, seg)]
        ELSE IF e # 0 THEN [child |-> e, params |-> params]
        ELSE IF w # 0 THEN [child |-> w, params |-> params]
        ELSE [child |-> 0, params |-> params]

\* Router.matchChild: the child chosen for a request segment, and the
\* parameter map after the call
matchChild(n, seg, params) ==
    LET e == FirstChild({i \in ChildIndices(n) : n.children[i].path = seg})
        p == FirstChild({i \in ChildIndices(n) : n.children[i].path = <<":">>})
        w == FirstChild({i \in ChildIndices(n) : n.children[i].wildcard})
    IN  IF e # 0 THEN [child |-> e, params |-> params]
        ELSE IF p # 0
        THEN [child |-> p, params |-> MapPut(params, n.children[p].param, seg)]
        ELSE IF w # 0 THEN [child |-> w, params |-> params]
        ELSE [child |-> 0, params |-> params]

\* the (nil, nil) result of Router.lookup
notFound == [handler |-> NoHandler, params |-> EmptyMap]

RECURSIVE lookupLoop_descend(_, _, _, _)
\* Router.lookup's loop with a wildcard child that is not terminal: it takes
\* one segment and the walk goes on below it while segments remain
lookupLoop_descend(current, segments, i, params) ==
    IF i > Len(segments)
    THEN [handler |-> current.handler, params |-> params]
    ELSE LET m == matchChild(current, segments[i], params)
         IN  IF m.child = 0 THEN notFound
             ELSE LET child == current.children[m.child]
                  IN  IF child.wildcard /\ i = Len(segments)
                      THEN [handler |-> child.handler,
                            params  |-> MapPut(m.params, child.param,
                                Join(SubSeq(segments, i, Len(segments)), "/"))]
                      ELSE lookupLoop_descend(child, segments, i + 1, m.params)

RECURSIVE lookupLoop_partial(_, _, _, _)
\* Router.lookup's loop that answers with the node reached so far when no
\* child matches the next segment
lookupLoop_partial(current, segments, i, params) ==
    IF i > Len(segments)
    THEN [handler |-> current.handler, params |-> params]
    ELSE LET m == matchChild(current, segments[i], params)
         IN  IF m.child = 0
             THEN [handler |-> current.handler, params |-> params]
             ELSE LET child == current.children[m.child]
                  IN  IF child.wildcard
                      THEN [handler |-> child.handler,
                            params  |-> MapPut(m.params, child.param,
                                Join(SubSeq(segments, i, Len(segments)), "/"))]
                      ELSE lookupLoop_partial(child, segments, i + 1, m.params)

RECURSIVE lookupLoop_throughEmpty(_, _, _, _)
\* Router.lookup's loop that stops at a wildcard child only when the child has
\* a handler, and goes on below a wildcard child without one
lookupLoop_throughEmpty(current, segments, i, params) ==
    IF i > Len(segments)
    THEN [handler |-> current.handler, params |-> params]
    ELSE LET m == matchChild(current, segments[i], params)
         IN  IF m.child = 0 THEN notFound
             ELSE LET child == current.children[m.child]
                  IN  IF child.wildcard /\ child.handler # NoHandler
                      THEN [handler |-> child.handler,
                            params  |-> MapPut(m.params, child.param,
                                Join(SubSeq(segments, i, Len(segments)), "/"))]
                      ELSE lookupLoop_throughEmpty(child, segments, i + 1, m.params)

RECURSIVE lookupLoop(_, _, _, _)
\* the loop of Router.lookup from iteration i on, and the final return
lookupLoop(current, segments, i, params) ==
    IF i > Len(segments)
    THEN [handler |-> current.handler, params |-> params]
    ELSE LET m == matchChild(current, segments[i], params)
         IN  IF m.child = 0 THEN notFound
             ELSE LET child == current.children[m.child]
                  IN  IF child.wildcard
                      THEN [handler |-> child.handler,
                            params  |-> MapPut(m.params, child.param,
                                Join(SubSeq(segments, i, Len(segments)), "/"))]
                      ELSE lookupLoop(child, segments, i + 1, m.params)

\* Router.lookup on the registry t
lookup(t, method, path) ==
    IF method \notin DOMAIN t THEN notFound
    ELSE LET root == t[method]
             p    == TrimPrefix(path, "/")
         IN  IF p = << >>
             THEN [handler |-> root.handler, params |-> EmptyMap]
             ELSE lookupLoop(root, splitPath(p), 1, EmptyMap)


RECURSIVE nodeAt(_, _)
\* the node a *node points at: the pointer is the list of child indices that
\* lead to it from the root
nodeAt(root, ptr) ==
    IF ptr = << >> THEN root ELSE nodeAt(root.children[Head(ptr)], Tail(ptr))

\* the method string in upper case
ToUpper(method) == IF method = "get" THEN "GET" ELSE method

\* Router.handle that keys the registry by the upper-cased method
register_foldCase(t, method, path, handler) ==
    LET key  == ToUpper(method)
        root == IF key \in DOMAIN t THEN t[key] ELSE newNode
    IN  [m \in DOMAIN t \cup {key} |->
            IF m = key THEN insert(root, path, handler) ELSE t[m]]

\* Router.handle on the registry t: the registry after the call
register(t, method, path, handler) ==
    LET root == IF method \in DOMAIN t THEN t[method] ELSE newNode
    IN  [m \in DOMAIN t \cup {method} |->
            IF m = method THEN insert(root, path, handler) ELSE t[m]]

\* newRouter: no method has a tree
newRouter == [m \in {} |-> newNode]

RECURSIVE registerAll(_)
\* the registry after the Router.handle calls of cs, made in order on a new Router
registerAll(cs) ==
    IF cs = << >> THEN newRouter
    ELSE LET c == cs[Len(cs)]
         IN  register(registerAll(SubSeq(cs, 1, Len(cs) - 1)),
                      c.method, c.path, c.handler)

(***************************************************************************)
(* State                                                                   *)
(***************************************************************************)
VARIABLES
    trees,     \* Router.trees: method -> root node, for the methods present
    calls,     \* the Router.handle calls made so far, in order
    ret,       \* the last completed call and what it returned
    inflight,  \* the Router.lookup calls running concurrently: their locals
    http,      \* the request Router.ServeHTTP is serving, and its response
    engine,    \* the Engine: its middleware, the handlers it wrapped, its last request
    store,     \* globalMemory, the MemoryStore, and the clock time.Now() reads
    callers,   \* the goroutines that call the MemoryStore, and what they were returned
    adapter    \* the request an adapter handler is processing, and its answer

vars == <<trees, calls, ret, inflight, http, engine, store, callers, adapter>>

\* the goroutines that serve requests
Goroutines == 1..MaxInFlight

\* the state outside the router's registry and its lookups
others == <<http, engine, store, callers, adapter>>

\* the state of the memory tool
memory == <<store, callers>>

\* a ResponseWriter nothing was written to: no status line, an empty body
newRecorder == [status |-> 0, body |-> << >>]

\* no request is being served
noRequest ==
    [pc |-> "idle", method |-> "", path |-> << >>, handler |-> NoHandler,
     params |-> EmptyMap, invoked |-> << >>, err |-> "", w |-> newRecorder]

\* the request record of an Engine that has served none since its last change
noServe ==
    [op |-> "none", method |-> "", path |-> << >>, handler |-> NoHandler,
     skips |-> {}, trace |-> << >>]

\* New(): an Engine without middleware; closures are the function values that
\* Handle has made, routes and added the history of the Handle and Use calls
newEngine ==
    [middleware |-> << >>, closures |-> << >>, added |-> << >>,
     routes |-> << >>, served |-> noServe]

\* the zero time.Time, and the time at which the process starts
ZeroTime == 0
StartTime == 1

\* make(map[string]memoryEntry)
NoEntries == [k \in {} |-> << >>]

\* an unlocked sync.RWMutex
unlocked == [writer |-> 0, readers |-> {}]

\* globalMemory as the package initialises it
newStore ==
    [mu |-> unlocked, data |-> NoEntries, lists |-> NoEntries, now |-> StartTime]

\* values of type any as encoding/json decodes them: nil, a float64 for a
\* JSON number, a string for a JSON string
nilValue == [kind |-> "nil", num |-> 0, str |-> ""]
number(n) == [kind |-> "float64", num |-> n, str |-> ""]
stringValue(s) == [kind |-> "string", num |-> 0, str |-> s]

\* the result of a call that has not returned one
noResult ==
    [found |-> FALSE, expired |-> FALSE, existed |-> FALSE,
     value |-> nilValue, previous |-> 0, current |-> 0]

\* a goroutine that is not inside a MemoryStore method: action, key, value
\* and ttl are the tool input, op the method called, amount, current and at
\* its locals, at being the time the method read from the clock
idleCaller ==
    [pc |-> "idle", action |-> "", op |-> "", key |-> "", value |-> nilValue,
     ttl |-> 0, amount |-> 0, current |-> 0, at |-> ZeroTime,
     result |-> noResult]

\* no goroutine has called the store: last is the call that returned last,
\* stored, ncalls and sum are the history of the calls
noCallers ==
    [procs |-> [g \in Goroutines |-> idleCaller], last |-> idleCaller,
     stored |-> NoEntries, ncalls |-> 0, sum |-> 0, initial |-> 0]

\* a chat request without messages, as the zero value of the request structs
emptyChat == [Messages |-> << >>, Stream |-> FALSE]

\* a request body that is not the text of a JSON value
malformedBody == [syntax |-> "malformed", value |-> emptyChat]

\* an adapter handler that has not been called: req, blocks, i, hasToolUse and
\* toolResults are its locals, executed the tool handlers it has called,
\* status and answer the response it has written
noChat ==
    [pc |-> "idle", api |-> "", body |-> malformedBody, req |-> emptyChat,
     blocks |-> << >>, i |-> 0, hasToolUse |-> FALSE, toolResults |-> << >>,
     executed |-> << >>, status |-> 0, answer |-> "", content |-> << >>]

\* the state outside the router when nothing but the router runs
OthersInit ==
    /\ http = noRequest
    /\ engine = newEngine
    /\ store = newStore
    /\ callers = noCallers
    /\ adapter = noChat

\* the record of a call that returns nothing
noRet(op) ==
    [op |-> op, method |-> "", path |-> << >>,
     handler |-> NoHandler, params |-> EmptyMap]

\* a goroutine that is not inside Router.lookup
idle ==
    [pc |-> "idle", method |-> "", path |-> << >>, segments |-> << >>, i |-> 0,
     current |-> << >>, params |-> EmptyMap, handler |-> NoHandler]

\* a Router.handle call
call(method, path, handler) ==
    [method |-> method, path |-> path, handler |-> handler]

\* the state after newRouter
Init ==
    /\ trees = newRouter
    /\ calls = << >>
    /\ ret = noRet("new")
    /\ inflight = [g \in Goroutines |-> idle]
    /\ OthersInit

\* the caller is sequential: it has taken the result of its last lookup
\* before it makes the next call
Ready == ret.op # "lookup"

\* Router.handle
handle(method, path, handler) ==
    /\ Ready
    /\ Len(calls) < MaxCalls
    /\ trees' = register(trees, method, path, handler)
    /\ calls' = Append(calls, call(method, path, handler))
    /\ ret' = noRet("handle")
    /\ UNCHANGED <<inflight, others>>

\* a whole call of Router.lookup, as Router.ServeHTTP makes it
callLookup(method, path) ==
    /\ Ready
    /\ LET r == lookup(trees, method, path)
       IN  ret' = [op |-> "lookup", method |-> method, path |-> path,
                   handler |-> r.handler, params |-> r.params]
    /\ UNCHANGED <<trees, calls, inflight, others>>

\* Router.ServeHTTP goes on with the handler and the parameters that its
\* call of Router.lookup returned, and ends
respond ==
    /\ ret.op = "lookup"
    /\ ret' = noRet("respond")
    /\ UNCHANGED <<trees, calls, inflight, others>>

\* a goroutine whose Router.lookup call has returned (handler, params)
returned(method, path, handler, params) ==
    [pc |-> "done", method |-> method, path |-> path, segments |-> << >>,
     i |-> 0, current |-> << >>, params |-> params, handler |-> handler]

\* goroutine g enters Router.lookup: the statements before the loop
lookupEnter(g, method, path) ==
    /\ inflight[g].pc = "idle"
    /\ inflight' = [inflight EXCEPT ![g] =
          IF method \notin DOMAIN trees
          THEN returned(method, path, NoHandler, EmptyMap)
          ELSE LET p == TrimPrefix(path, "/")
               IN  IF p = << >>
                   THEN returned(method, path, trees[method].handler, EmptyMap)
                   ELSE [pc |-> "loop", method |-> method, path |-> path,
                         segments |-> splitPath(p), i |-> 1, current |-> << >>,
                         params |-> EmptyMap, handler |-> NoHandler]]
    /\ UNCHANGED <<trees, calls, ret, others>>

\* one iteration of the loop run with a parameter map that all the calls in
\* their loop share
lookupIter_shared(g) ==
    /\ inflight[g].pc = "loop"
    /\ LET L   == inflight[g]
           cur == nodeAt(trees[L.method], L.current)
       IN  IF L.i > Len(L.segments)
           THEN inflight' = [inflight EXCEPT ![g] =
                    returned(L.method, L.path, cur.handler, L.params)]
           ELSE LET m == matchChild(cur, L.segments[L.i], L.params)
                IN  IF m.child = 0
                    THEN inflight' = [inflight EXCEPT ![g] =
                            returned(L.method, L.path, NoHandler, EmptyMap)]
                    ELSE LET child == cur.children[m.child]
                         IN  IF child.wildcard
                             THEN inflight' = [inflight EXCEPT ![g] =
                                    returned(L.method, L.path, child.handler,
                                        MapPut(m.params, child.param,
                                            Join(SubSeq(L.segments, L.i, Len(L.segments)), "/")))]
                             ELSE inflight' = [h \in Goroutines |->
                                    IF h = g
                                    THEN [L EXCEPT !.current = Append(@, m.child),
                                                   !.i = @ + 1,
                                                   !.params = m.params]
                                    ELSE IF inflight[h].pc = "loop"
                                    THEN [inflight[h] EXCEPT !.params = m.params]
                                    ELSE inflight[h]]
    /\ UNCHANGED <<trees, calls, ret, others>>

\* goroutine g runs one iteration of the loop of Router.lookup, or the return
\* after the loop
lookupIter(g) ==
    /\ inflight[g].pc = "loop"
    /\ LET L   == inflight[g]
           cur == nodeAt(trees[L.method], L.current)
       IN  inflight' = [inflight EXCEPT ![g] =
              IF L.i > Len(L.segments)
              THEN returned(L.method, L.path, cur.handler, L.params)
              ELSE LET m == matchChild(cur, L.segments[L.i], L.params)
                   IN  IF m.child = 0
                       THEN returned(L.method, L.path, NoHandler, EmptyMap)
                       ELSE LET child == cur.children[m.child]
                            IN  IF child.wildcard
                                THEN returned(L.method, L.path, child.handler,
                                        MapPut(m.params, child.param,
                                            Join(SubSeq(L.segments, L.i, Len(L.segments)), "/")))
                                ELSE [L EXCEPT !.current = Append(@, m.child),
                                               !.i = @ + 1,
                                               !.params = m.params]]
    /\ UNCHANGED <<trees, calls, ret, others>>

\* the caller of goroutine g has taken the result of its Router.lookup call
lookupReturn(g) ==
    /\ inflight[g].pc = "done"
    /\ inflight' = [inflight EXCEPT ![g] = idle]
    /\ UNCHANGED <<trees, calls, ret, others>>

\* route registration with the patterns of Patterns
Register ==
    \E method \in Methods, path \in Patterns, handler \in Handlers :
        handle(method, path, handler)

\* a request with a path of Queries
Request ==
    \E method \in Methods, path \in Queries : callLookup(method, path)

Next == Register \/ Request \/ respond

Spec == Init /\ [][Next]_vars

\* route registration with the patterns of WildPatterns
RegisterWild ==
    \E method \in Methods, path \in WildPatterns, handler \in Handlers :
        handle(method, path, handler)

\* a request with a path of WildQueries
RequestWild ==
    \E method \in Methods, path \in WildQueries : callLookup(method, path)

NextWild == RegisterWild \/ RequestWild \/ respond

\* the router with wildcard routes
SpecWild == Init /\ [][NextWild]_vars

\* the routes an application has registered when it starts to serve
ServeRoutes ==
    { << call("GET", <<"/", ":", "x", "/", ":", "y">>, 1),
         call("GET", <<"/", "a", "/", ":", "x">>, 2) >>,
      << call("GET", <<"/", "a", "/", "*", "w">>, 1),
         call("GET", <<"a", "/", "b", "/">>, 2) >>,
      << call("GET", <<"/">>, 1),
         call("get", <<"/", ":", "x", "/", "b">>, 2) >>,
      << call("GET", <<"/", "a">>, 1),
         call("get", <<"/", "a", "/", ":", "x">>, 2) >> }

\* the request paths of the serving phase
ServeQueries ==
    { <<"/">>,
      <<"/", "a", "/", "c">>,
      <<"/", "c", "/", "b">>,
      <<"/", "b", "/", "c">>,
      <<"/", "a", "/", "b", "/", "c">> }

\* the state when Engine.Listen starts to serve: the routes are registered
InitServe ==
    /\ calls \in ServeRoutes
    /\ trees = registerAll(calls)
    /\ ret = noRet("handle")
    /\ inflight = [g \in Goroutines |-> idle]
    /\ OthersInit

\* a step of one of the concurrent Router.lookup calls
NextServe ==
    \E g \in Goroutines :
        \/ \E method \in Methods, path \in ServeQueries : lookupEnter(g, method, path)
        \/ lookupIter(g)
        \/ lookupReturn(g)

\* the serving phase: requests are looked up concurrently, nothing is registered
SpecServe == InitServe /\ [][NextServe]_vars

(***************************************************************************)
(* Vocabulary of the properties                                            *)
(***************************************************************************)
\* the segments a pattern or a request path denotes: the pieces between its
\* slashes, leading and trailing slashes ignored
Segments(path) ==
    LET p == Trim(path, "/")
    IN  IF p = << >> THEN << >> ELSE Split(p, "/")

IsParamSeg(seg) == HasPrefix(seg, ":")
IsWildSeg(seg) == HasPrefix(seg, "*")
IsLiteralSeg(seg) == ~IsParamSeg(seg) /\ ~IsWildSeg(seg)

\* a pattern of literal segments only (the root pattern is one)
IsLiteralPattern(p) == \A k \in 1..Len(p) : IsLiteralSeg(p[k])

\* a pattern without wildcard and with at least one parameter segment
IsParamPattern(p) ==
    /\ \A k \in 1..Len(p) : ~IsWildSeg(p[k])
    /\ \E k \in 1..Len(p) : IsParamSeg(p[k])

\* a pattern whose last segment, and no other, is a wildcard
IsWildPattern(p) ==
    /\ Len(p) >= 1
    /\ IsWildSeg(p[Len(p)])
    /\ \A k \in 1..(Len(p) - 1) : ~IsWildSeg(p[k])

\* request segments q agree with pattern p on the positions 1..n: equal where
\* the pattern is literal, anything where it is a parameter
AgreeUpTo(p, q, n) ==
    \A k \in 1..n : IsLiteralSeg(p[k]) => q[k] = p[k]

\* pattern p matches the request segments q in full
Matches(p, q) ==
    \/ /\ \A k \in 1..Len(p) : ~IsWildSeg(p[k])
       /\ Len(q) = Len(p)
       /\ AgreeUpTo(p, q, Len(p))
    \/ /\ IsWildPattern(p)
       /\ Len(q) >= Len(p)
       /\ AgreeUpTo(p, q, Len(p) - 1)

\* the Router.handle calls made for a method
CallsOf(method) == {i \in 1..Len(calls) : calls[i].method = method}

\* the Router.handle calls made for a method with a pattern of segments p
CallsFor(method, p) == {i \in CallsOf(method) : Segments(calls[i].path) = p}

\* the handler of the latest of a non-empty set of calls
LatestHandler(S) == calls[CHOOSE i \in S : \A j \in S : j <= i].handler

\* the segments of the request the last lookup was made with
ReqSegs == Segments(ret.path)

\* the parameter map binds name to value
Binds(params, name, value) == name \in DOMAIN params /\ params[name] = value

(***************************************************************************)
(* C1: a registered literal path is found. After any registrations, a      *)
(* lookup with the method and the path of a registered literal pattern     *)
(* returns the handler registered (last) for that method and path and an   *)
(* empty parameter map, whatever else is registered.                       *)
(***************************************************************************)
C1_LiteralRouteFound ==
    ret.op = "lookup" =>
        \A i \in CallsOf(ret.method) :
            LET p == Segments(calls[i].path)
            IN  (IsLiteralPattern(p) /\ ReqSegs = p) =>
                    /\ ret.handler = LatestHandler(CallsFor(ret.method, p))
                    /\ ret.handler # NoHandler
                    /\ DOMAIN ret.params = {}

\* a two-segment literal route, registered before a parameter route that
\* matches the same request, is looked up and found
C1_Witness ==
    /\ ret.op = "lookup"
    /\ Len(calls) = 2
    /\ calls[1].method = ret.method /\ calls[2].method = ret.method
    /\ Segments(calls[1].path) = <<<<"a">>, <<"b">>>>
    /\ Segments(calls[2].path) = <<<<"a">>, <<":", "x">>>>
    /\ calls[1].handler # calls[2].handler
    /\ ReqSegs = <<<<"a">>, <<"b">>>>
    /\ ret.handler = calls[1].handler


(***************************************************************************)
(* C2: parameters are bound to the request's segment text. When the only   *)
(* pattern registered for a method has parameter segments (of distinct     *)
(* names) and no wildcard, a lookup whose path has as many segments and is *)
(* equal to the pattern at the literal positions returns the pattern's     *)
(* handler and binds each parameter name to the request segment at its     *)
(* position, whatever the text of that segment.                            *)
(***************************************************************************)
\* the names of the parameter segments of p are pairwise distinct
DistinctParamNames(p) ==
    \A j, k \in 1..Len(p) :
        (IsParamSeg(p[j]) /\ IsParamSeg(p[k]) /\ j # k) => p[j] # p[k]

\* every call registered for the method has the pattern p
OnlyPattern(method, p) ==
    /\ CallsOf(method) # {}
    /\ \A i \in CallsOf(method) : Segments(calls[i].path) = p

\* C2: a found request of a parameter pattern binds every parameter name to
\* the text of the request segment at its position
C2_ParamsBound ==
    ret.op = "lookup" =>
        \A i \in CallsOf(ret.method) :
            LET p == Segments(calls[i].path)
            IN  ( /\ IsParamPattern(p)
                  /\ DistinctParamNames(p)
                  /\ OnlyPattern(ret.method, p)
                  /\ Len(ReqSegs) = Len(p)
                  /\ AgreeUpTo(p, ReqSegs, Len(p)) ) =>
                    /\ ret.handler = LatestHandler(CallsFor(ret.method, p))
                    /\ \A k \in 1..Len(p) :
                          IsParamSeg(p[k]) => Binds(ret.params, Tail(p[k]), ReqSegs[k])


(***************************************************************************)
(* C3: a wildcard match is terminal and captures the rest of the path.     *)
(* For a registered pattern that ends in a wildcard segment and a request  *)
(* that follows the nodes of the pattern's prefix and has one or more      *)
(* further segments, none of them taken by a literal or parameter child    *)
(* at the wildcard's position, lookup returns the handler of a wildcard    *)
(* child at that position and binds that child's name to the remaining     *)
(* request segments, from the wildcard's position on, joined with "/";     *)
(* it does so whatever is registered below the wildcard. When the position *)
(* has one wildcard child, the handler and the name are the pattern's.     *)
(***************************************************************************)
RECURSIVE PatternNode(_, _)
\* the node Router.insert reaches from n along the pattern segments pre
PatternNode(n, pre) ==
    IF pre = << >> THEN n
    ELSE PatternNode(n.children[findChild(n, Head(pre))], Tail(pre))

RECURSIVE WalkFollows(_, _, _)
\* the request segments q lead from n along the nodes of the pattern segments
\* pre: each literal segment is equal, and at a parameter segment no other
\* child carries the request segment as its path
WalkFollows(n, pre, q) ==
    IF pre = << >> THEN TRUE
    ELSE LET c == findChild(n, Head(pre))
         IN  /\ c # 0
             /\ IF IsLiteralSeg(Head(pre))
                THEN Head(q) = Head(pre)
                ELSE \A j \in 1..Len(n.children) :
                        n.children[j].path = Head(q) => j = c
             /\ WalkFollows(n.children[c], Tail(pre), Tail(q))

\* the wildcard children of a node, as indices
WildChildren(n) == {j \in 1..Len(n.children) : n.children[j].wildcard}

\* no literal child of n equals the segment and n has no parameter child
NoRival(n, seg) ==
    \A j \in 1..Len(n.children) :
        /\ n.children[j].path # <<":">>
        /\ n.children[j].path = seg => n.children[j].wildcard

LiteralBesideParam(lit, par, k) ==
    /\ Len(lit) = Len(par)
    /\ k \in 1..Len(par)
    /\ IsLiteralPattern(lit)
    /\ IsParamSeg(par[k])
    /\ \A j \in 1..Len(par) : j # k => par[j] = lit[j]

\* C4: where a literal and a parameter route share a position, the literal
\* path is answered by the literal route, the other texts by the parameter one
C4_LiteralBeforeParam ==
    ret.op = "lookup" =>
        \A a, b \in CallsOf(ret.method) :
            LET lit == Segments(calls[a].path)
                par == Segments(calls[b].path)
                q   == ReqSegs
            IN  \A k \in 1..Len(par) :
                  ( /\ LiteralBesideParam(lit, par, k)
                    /\ \A c \in CallsOf(ret.method) :
                          Segments(calls[c].path) \in {lit, par}
                    /\ Len(q) = Len(par)
                    /\ \A j \in 1..Len(par) : j # k => q[j] = lit[j] ) =>
                      IF q[k] = lit[k]
                      THEN /\ ret.handler = LatestHandler(CallsFor(ret.method, lit))
                           /\ DOMAIN ret.params = {}
                      ELSE /\ ret.handler = LatestHandler(CallsFor(ret.method, par))
                           /\ Binds(ret.params, Tail(par[k]), q[k])


(***************************************************************************)
(* C5: registering the identical (method, pattern) again replaces the      *)
(* handler. When every call made for a method registered one and the same  *)
(* pattern, two times or more, a lookup of a path that the pattern matches *)
(* returns the handler of the latest of these calls.                       *)
(***************************************************************************)
C5_LastWriteWins ==
    ret.op = "lookup" =>
        \A i \in CallsOf(ret.method) :
            LET p == Segments(calls[i].path)
            IN  ( /\ Cardinality(CallsOf(ret.method)) >= 2
                  /\ \A j \in CallsOf(ret.method) : calls[j].path = calls[i].path
                  /\ Matches(p, ReqSegs) ) =>
                    ret.handler = LatestHandler(CallsOf(ret.method))


(***************************************************************************)
(* C6: not-found is never replaced by a partial or default match. A lookup *)
(* returns a handler only if that handler was registered, for exactly the  *)
(* method of the lookup, with a pattern that matches the request in full;  *)
(* in every other case (no tree for the method, no child for a segment,    *)
(* a final node without handler) it returns the nil handler.               *)
(***************************************************************************)
C6_NoPartialMatch ==
    (ret.op = "lookup" /\ ret.handler # NoHandler) =>
        \E i \in CallsOf(ret.method) :
            /\ calls[i].handler = ret.handler
            /\ Matches(Segments(calls[i].path), ReqSegs)

\* /a and /a/b are routes of the method and /a/b/c is looked up: not found
C6_Witness ==
    /\ ret.op = "lookup"
    /\ Len(calls) = 2
    /\ calls[1].method = ret.method /\ calls[2].method = ret.method
    /\ Segments(calls[1].path) = <<<<"a">>>>
    /\ Segments(calls[2].path) = <<<<"a">>, <<"b">>>>
    /\ ReqSegs = <<<<"a">>, <<"b">>, <<"c">>>>
    /\ ret.handler = NoHandler

(***************************************************************************)
(* C7: a request with another number of segments is a mismatch. When the   *)
(* request is a strict prefix of a registered route (wildcard routes       *)
(* included), or goes on after the last segment of a registered route      *)
(* without wildcard, and no route registered for the method matches it in  *)
(* full, the lookup returns the nil handler.                               *)
(***************************************************************************)
\* the request q stops before the pattern p does
StopsShort(p, q) == Len(q) < Len(p) /\ AgreeUpTo(p, q, Len(q))

\* the request q goes on after the last segment of the wildcard-free pattern p
RunsPast(p, q) ==
    /\ \A k \in 1..Len(p) : ~IsWildSeg(p[k])
    /\ Len(q) > Len(p)
    /\ AgreeUpTo(p, q, Len(p))

\* C7: a request shorter or longer than the only registered pattern is not found
C7_SegmentCountMismatch ==
    ret.op = "lookup" =>
        \A i \in CallsOf(ret.method) :
            LET p == Segments(calls[i].path)
            IN  ( /\ StopsShort(p, ReqSegs) \/ RunsPast(p, ReqSegs)
                  /\ \A j \in CallsOf(ret.method) :
                        ~Matches(Segments(calls[j].path), ReqSegs) ) =>
                    ret.handler = NoHandler

\* /a/*w is the only route and "a/" is looked up: the wildcard does not match
\* an empty rest
C7_Witness ==
    /\ ret.op = "lookup"
    /\ Len(calls) = 1
    /\ calls[1].method = ret.method
    /\ calls[1].path = <<"/", "a", "/", "*", "w">>
    /\ ret.path = <<"a", "/">>
    /\ ret.handler = NoHandler


(***************************************************************************)
(* C8: methods are compared by exact string equality. A handler returned   *)
(* by a lookup was registered under exactly the method string of the       *)
(* lookup ("GET" is not "get"), and a Router.handle call for one method    *)
(* leaves the result of every lookup for every other method as it was.     *)
(***************************************************************************)
\* every request path of the model
AllQueries == Queries \cup WildQueries

\* a returned handler was registered under the method string of the lookup
FoundUnderOwnMethod ==
    (ret.op = "lookup" /\ ret.handler # NoHandler) =>
        \E i \in 1..Len(calls) :
            calls[i].method = ret.method /\ calls[i].handler = ret.handler

\* a registration step changes no lookup result of another method
OtherMethodsKeepResults ==
    Len(calls') = Len(calls) + 1 =>
        \A m \in Methods \ {calls'[Len(calls')].method} :
            \A q \in AllQueries : lookup(trees', m, q) = lookup(trees, m, q)

\* C8: a lookup finds only routes registered under exactly its method, and
\* a registration leaves the results of every other method as they were
C8_MethodsExact == []FoundUnderOwnMethod /\ [][OtherMethodsKeepResults]_vars

\* a route registered under "GET" alone is not found by a lookup with "get"
C8_Witness ==
    /\ ret.op = "lookup"
    /\ ret.method = "get"
    /\ Len(calls) = 1
    /\ calls[1].method = "GET"
    /\ Segments(calls[1].path) = ReqSegs
    /\ ret.handler = NoHandler


(***************************************************************************)
(* C9: leading and trailing slashes are insignificant. Registering a       *)
(* pattern builds the same trees as registering it with its leading and    *)
(* trailing slashes removed, added or doubled; a lookup returns the same   *)
(* result for every such form of its path; the empty path and every path   *)
(* of slashes only denote the root node: registering one stores the        *)
(* handler in the root, and looking one up returns the root's handler with *)
(* an empty parameter map.                                                 *)
(***************************************************************************)
\* the path without, with one and with two leading and trailing slashes
SlashForms(path) ==
    LET core == Trim(path, "/")
    IN  { core,
          <<"/">> \o core,
          core \o <<"/">>,
          <<"/">> \o core \o <<"/">>,
          <<"/", "/">> \o core \o <<"/", "/">> }

\* a path of slashes only, or the empty path
AllSlashes(path) == \A k \in 1..Len(path) : path[k] = "/"

\* the last lookup has the same result for every slash form of its path, and
\* the root's handler and no parameter when the path is all slashes
LookupIgnoresSlashes ==
    ret.op = "lookup" =>
        /\ \A v \in SlashForms(ret.path) :
              LET r == lookup(trees, ret.method, v)
              IN  r.handler = ret.handler /\ r.params = ret.params
        /\ (AllSlashes(ret.path) /\ ret.method \in DOMAIN trees) =>
              /\ ret.handler = trees[ret.method].handler
              /\ DOMAIN ret.params = {}

\* a registration step builds the trees that every slash form of its pattern
\* builds, and an all-slash pattern stores the handler in the root
HandleIgnoresSlashes ==
    Len(calls') = Len(calls) + 1 =>
        LET c == calls'[Len(calls')]
        IN  /\ \A v \in SlashForms(c.path) :
                  register(trees, c.method, v, c.handler) = trees'
            /\ AllSlashes(c.path) => trees'[c.method].handler = c.handler

\* C9: leading and trailing slashes change neither what a lookup returns nor
\* what a registration builds
C9_SlashesInsignificant ==
    []LookupIgnoresSlashes /\ [][HandleIgnoresSlashes]_vars

\* "/" and "a/b/" are registered and the lookup of "//" returns the handler
\* registered with "/"
C9_Witness ==
    /\ ret.op = "lookup"
    /\ Len(calls) = 2
    /\ calls[1].method = ret.method /\ calls[2].method = ret.method
    /\ calls[1].path = <<"/">>
    /\ calls[2].path = <<"a", "/", "b", "/">>
    /\ ret.path = <<"/", "/">>
    /\ ret.handler = calls[1].handler
    /\ DOMAIN ret.params = {}


(***************************************************************************)
(* C10: lookup reads, and never writes, the registry and the trees. Once   *)
(* the routes are registered, lookups that run concurrently, their steps   *)
(* interleaved in any order, each return the handler and the parameter map *)
(* that the same lookup returns when it runs alone, and no step of a       *)
(* lookup changes the registry or a tree node.                             *)
(***************************************************************************)
\* every lookup that has returned holds the result of the lookup run alone
ReturnsAsAlone ==
    \A g \in Goroutines :
        inflight[g].pc = "done" =>
            LET r == lookup(trees, inflight[g].method, inflight[g].path)
            IN  /\ inflight[g].handler = r.handler
                /\ inflight[g].params = r.params

\* a step of a lookup leaves the registry and every tree as they were
LookupStepKeepsTrees ==
    (inflight' # inflight \/ (ret' # ret /\ ret'.op = "lookup")) =>
        trees' = trees /\ trees = registerAll(calls)

\* C10: a step of a lookup leaves the trees unchanged, and concurrent
\* lookups return what a lookup alone returns
C10_LookupReadOnly == []ReturnsAsAlone /\ [][LookupStepKeepsTrees]_vars

\* one lookup has returned with x bound to "c" while another, still in its
\* loop, has bound x to "b"
C10_Witness ==
    /\ inflight[1].pc = "done"
    /\ inflight[1].handler # NoHandler
    /\ Binds(inflight[1].params, <<"x">>, <<"c">>)
    /\ inflight[2].pc = "loop"
    /\ Binds(inflight[2].params, <<"x">>, <<"b">>)

(***************************************************************************)
(* Router.ServeHTTP (src/unnamed/part_001) and the http.ResponseWriter it  *)
(* and the handlers write to. The response carries the status of the first *)
(* WriteHeader call; later calls do not change it.                         *)
(***************************************************************************)
\* the error values a handler returns; NoError is the nil error
NoError == ""
HandlerErrors == {NoError, "boom"}

\* what a handler does with its Context before it returns: it writes nothing
\* (code 0) or answers with c.String(code, "OK"), and returns nil or an error
HandlerBehaviours ==
    [code : {0, 200}, err : HandlerErrors]

\* http.ResponseWriter.WriteHeader: the first status written is the status
WriteHeader(w, code) ==
    IF w.status = 0 THEN [w EXCEPT !.status = code] ELSE w

\* http.ResponseWriter.Write: writes the status 200 when none was written
Write(w, data) ==
    [WriteHeader(w, 200) EXCEPT !.body = Append(@, data)]

\* http.Error: WriteHeader(code), then the text and a line feed
Error(w, text, code) ==
    Write(Write(WriteHeader(w, code), text), "\n")

\* Context.String(code, msg)
String(w, code, msg) == Write(WriteHeader(w, code), msg)

\* Router.ServeHTTP line 149: lookup(req.Method, req.URL.Path)
serveLookup(method, path) ==
    /\ http.pc \in {"idle", "sent"}
    /\ LET r == lookup(trees, method, path)
       IN  http' = [noRequest EXCEPT !.pc = "looked", !.method = method,
                       !.path = path, !.handler = r.handler, !.params = r.params]
    /\ UNCHANGED <<trees, calls, ret, inflight, engine, memory, adapter>>

\* Router.ServeHTTP lines 150-153: no handler, http.NotFound and return
serveNotFound ==
    /\ http.pc = "looked"
    /\ http.handler = NoHandler
    /\ http' = [http EXCEPT !.pc = "done",
                            !.w = Error(@, "404 page not found", 404)]
    /\ UNCHANGED <<trees, calls, ret, inflight, engine, memory, adapter>>

\* Router.ServeHTTP lines 155-161: the handler runs with a Context that
\* carries the parameters, and returns its error
serveHandler(b) ==
    /\ http.pc = "looked"
    /\ http.handler # NoHandler
    /\ http' = [http EXCEPT
          !.pc = "returned",
          !.invoked = Append(@, [handler |-> http.handler, params |-> http.params]),
          !.w = IF b.code = 0 THEN @ ELSE String(@, b.code, "OK"),
          !.err = b.err]
    /\ UNCHANGED <<trees, calls, ret, inflight, engine, memory, adapter>>

\* Router.ServeHTTP lines 161-164: http.Error for a non-nil error, and return
serveError ==
    /\ http.pc = "returned"
    /\ http' = [http EXCEPT
          !.pc = "done",
          !.w = IF http.err # NoError THEN Error(@, http.err, 500) ELSE @]
    /\ UNCHANGED <<trees, calls, ret, inflight, engine, memory, adapter>>

\* ServeHTTP has returned: the server sends the response, with the status 200
\* when the handler wrote none
serveFinish ==
    /\ http.pc = "done"
    /\ http' = [http EXCEPT !.pc = "sent", !.w = WriteHeader(@, 200)]
    /\ UNCHANGED <<trees, calls, ret, inflight, engine, memory, adapter>>

\* the state when the router starts to serve: the routes are registered
InitHTTP ==
    /\ calls \in ServeRoutes
    /\ trees = registerAll(calls)
    /\ ret = noRet("handle")
    /\ inflight = [g \in Goroutines |-> idle]
    /\ OthersInit

NextHTTP ==
    \/ \E method \in Methods, path \in ServeQueries : serveLookup(method, path)
    \/ serveNotFound
    \/ \E b \in HandlerBehaviours : serveHandler(b)
    \/ serveError
    \/ serveFinish

\* the router serves requests one after another
SpecHTTP == InitHTTP /\ [][NextHTTP]_vars

\* the response body ends with the text http.Error writes for err
EndsWithError(body, err) ==
    /\ Len(body) >= 2
    /\ body[Len(body) - 1] = err
    /\ body[Len(body)] = "\n"

(***************************************************************************)
(* C11: Router.ServeHTTP answers 404 exactly when lookup yields a nil      *)
(* handler, and then no handler is invoked; otherwise the found handler is *)
(* invoked exactly once, with the parameters lookup captured, and the      *)
(* response has the status 500 and the error text if and only if the       *)
(* handler returned a non-nil error.                                       *)
(***************************************************************************)
C11_ServeHTTPAnswers ==
    http.pc = "sent" =>
        LET r == lookup(trees, http.method, http.path)
        IN  /\ (http.w.status = 404) <=> (r.handler = NoHandler)
            /\ r.handler = NoHandler => http.invoked = << >>
            /\ r.handler # NoHandler =>
                  /\ http.invoked = <<[handler |-> r.handler, params |-> r.params]>>
                  /\ (http.w.status = 500 /\ EndsWithError(http.w.body, http.err))
                        <=> (http.err # NoError)


(***************************************************************************)
(* Engine.Use, Engine.Handle and Engine.ServeHTTP (src/blaze.go). A        *)
(* HandlerFunc is a number: the route handlers of Handlers, and after them *)
(* the closures that the middleware return, kept in engine.closures; a     *)
(* closure holds the middleware that made it and the handler it calls as   *)
(* next.                                                                   *)
(***************************************************************************)
\* the number of middleware an Engine is given
MaxMiddleware == 3

\* the middleware functions handed to Engine.Use
Middlewares == {"logger", "custom"}

\* the argument lists of Engine.Use: one middleware, or two
UseArgs ==
    {<<m>> : m \in Middlewares} \cup {<<m, n>> : m, n \in Middlewares}

\* the literal route patterns registered through the Engine
EnginePaths == {<<"/", "a">>, <<"/", "b">>}

\* the method of the routes registered through the Engine
EngineMethods == {"GET"}

\* the HandlerFunc value of the k-th closure
closureId(k) == k + Cardinality(Handlers)

\* handler is a closure returned by a middleware
IsClosure(handler) == handler > Cardinality(Handlers)

RECURSIVE wrapLoop_forward(_, _, _, _)
\* Engine.Handle's loop run from the first middleware to the last
wrapLoop_forward(closures, handler, middleware, i) ==
    LET k == Len(middleware) + 1 - i
    IN  IF i < 1 THEN [closures |-> closures, handler |-> handler]
        ELSE wrapLoop_forward(
                Append(closures, [mw |-> middleware[k], next |-> handler]),
                closureId(Len(closures) + 1), middleware, i - 1)

RECURSIVE wrapLoop(_, _, _, _)
\* the loop of Engine.Handle from index i down: handler = e.middleware[i](handler)
wrapLoop(closures, handler, middleware, i) ==
    IF i < 1 THEN [closures |-> closures, handler |-> handler]
    ELSE wrapLoop(Append(closures, [mw |-> middleware[i], next |-> handler]),
                  closureId(Len(closures) + 1), middleware, i - 1)

\* what running a middleware, and what running a route handler, leaves in the
\* trace of a request
ranMiddleware(m) == [mw |-> m, handler |-> NoHandler]
ranHandler(h) == [mw |-> "", handler |-> h]

RECURSIVE innermost(_, _)
\* the route handler at the end of a chain of closures
innermost(closures, handler) ==
    IF IsClosure(handler)
    THEN innermost(closures, closures[handler - Cardinality(Handlers)].next)
    ELSE handler

\* the call handler(ctx) of an Engine that applies the middleware it has at
\* the time of the request, whatever the route was wrapped with
run_current(closures, handler, skips) ==
    LET ms    == engine.middleware
        stops == {k \in 1..Len(ms) : ms[k] \in skips}
        n     == IF stops = {} THEN Len(ms)
                 ELSE CHOOSE k \in stops : \A j \in stops : k <= j
    IN  [k \in 1..n |-> ranMiddleware(ms[k])] \o
        (IF stops = {} THEN <<ranHandler(innermost(closures, handler))>> ELSE << >>)

RECURSIVE run(_, _, _)
\* the call handler(ctx): a closure runs its middleware, which calls next
\* unless it is one of skips; a route handler runs itself
run(closures, handler, skips) ==
    IF IsClosure(handler)
    THEN LET c == closures[handler - Cardinality(Handlers)]
         IN  <<ranMiddleware(c.mw)>> \o
                (IF c.mw \in skips THEN << >> ELSE run(closures, c.next, skips))
    ELSE <<ranHandler(handler)>>

\* Engine.Use
Use(middleware) ==
    /\ Len(engine.middleware) + Len(middleware) <= MaxMiddleware
    /\ engine' = [engine EXCEPT !.middleware = @ \o middleware,
                                !.added = @ \o middleware,
                                !.served = noServe]
    /\ UNCHANGED <<trees, calls, ret, inflight, http, memory, adapter>>

\* Engine.Handle: wraps the handler and registers the result with the router
Handle(method, path, handler) ==
    /\ Len(calls) < MaxCalls
    /\ LET w == wrapLoop(engine.closures, handler, engine.middleware,
                         Len(engine.middleware))
       IN  /\ trees' = register(trees, method, path, w.handler)
           /\ calls' = Append(calls, call(method, path, w.handler))
           /\ engine' = [engine EXCEPT
                 !.closures = w.closures,
                 !.routes = Append(@, [method |-> method, path |-> path,
                                       handler |-> handler, before |-> engine.added]),
                 !.served = noServe]
    /\ UNCHANGED <<ret, inflight, http, memory, adapter>>

\* Engine.ServeHTTP: Router.ServeHTTP looks the route up and calls its handler;
\* the middleware of skips return without calling next
EngineServeHTTP(method, path, skips) ==
    /\ LET r == lookup(trees, method, path)
       IN  engine' = [engine EXCEPT !.served =
              [op |-> "request", method |-> method, path |-> path,
               handler |-> r.handler, skips |-> skips,
               trace |-> IF r.handler = NoHandler THEN << >>
                         ELSE run(engine.closures, r.handler, skips)]]
    /\ UNCHANGED <<trees, calls, ret, inflight, http, memory, adapter>>

NextEngine ==
    \/ \E middleware \in UseArgs : Use(middleware)
    \/ \E method \in EngineMethods, path \in EnginePaths, handler \in Handlers :
          Handle(method, path, handler)
    \/ \E method \in EngineMethods, path \in EnginePaths, skips \in SUBSET Middlewares :
          EngineServeHTTP(method, path, skips)

\* an Engine that is given middleware and routes and serves requests
SpecEngine == Init /\ [][NextEngine]_vars

\* the Engine.Handle calls made for the method and the path
RoutesFor(method, path) ==
    {i \in 1..Len(engine.routes) :
        engine.routes[i].method = method /\ engine.routes[i].path = path}

\* the middleware of ms run in order up to the first one that does not call
\* next, and the handler h after them when all of them call next
ExpectedTrace(ms, h, skips) ==
    LET stops == {k \in 1..Len(ms) : ms[k] \in skips}
        n     == IF stops = {} THEN Len(ms)
                 ELSE CHOOSE k \in stops : \A j \in stops : k <= j
    IN  [k \in 1..n |-> ranMiddleware(ms[k])] \o
        (IF stops = {} THEN <<ranHandler(h)>> ELSE << >>)

(***************************************************************************)
(* C12: a request to a route registered through the Engine runs the        *)
(* middleware that were added with Use before the route was registered, in *)
(* the order they were added, the first added outermost and first, and     *)
(* the route handler last; a middleware that does not call next ends the   *)
(* chain, and the handler runs only if every middleware calls next.        *)
(***************************************************************************)
C12_MiddlewareOrder ==
    (engine.served.op = "request" /\ RoutesFor(engine.served.method, engine.served.path) # {}) =>
        LET S == RoutesFor(engine.served.method, engine.served.path)
            r == engine.routes[CHOOSE i \in S : \A j \in S : j <= i]
        IN  engine.served.trace =
                ExpectedTrace(r.before, r.handler, engine.served.skips)

\* a route registered after Use(logger) and Use(custom), or Use(logger, custom),
\* is requested and both call next: logger, custom, then the handler have run
C12_Witness ==
    /\ engine.served.op = "request"
    /\ engine.middleware = <<"logger", "custom">>
    /\ Len(engine.routes) = 1
    /\ engine.routes[1].before = <<"logger", "custom">>
    /\ engine.served.skips = {}
    /\ engine.served.trace =
          <<ranMiddleware("logger"), ranMiddleware("custom"),
            ranHandler(engine.routes[1].handler)>>


(***************************************************************************)
(* The memory tool (src/tool/memory.go): the handler of NewMemoryTool and  *)
(* the methods of MemoryStore, each run by a goroutine step by step: the   *)
(* Lock or RLock, the statements under the lock, the deferred unlock.      *)
(***************************************************************************)
\* the number of memory tool calls a behaviour makes
MaxStoreCalls == 3

\* the last reading of the clock
MaxTime == 4

\* delete(m, key)
MapDelete(m, key) == [k \in DOMAIN m \ {key} |-> m[k]]

\* a Lock that never waits
canLock_always(mu) == TRUE

\* sync.RWMutex: Lock waits until no goroutine holds the mutex
canLock(mu) == mu.writer = 0 /\ mu.readers = {}

\* sync.RWMutex: RLock waits until no writer holds the mutex
canRLock(mu) == mu.writer = 0

\* a Set that stores no expiry
setEntry_noExpiry(value, ttlSeconds, now) ==
    [Value |-> value, CreatedAt |-> now, ExpiresAt |-> ZeroTime, TTL |-> 0]

\* the memoryEntry that Set stores at time now
setEntry(value, ttlSeconds, now) ==
    [Value |-> value, CreatedAt |-> now,
     ExpiresAt |-> IF ttlSeconds > 0 THEN now + ttlSeconds ELSE ZeroTime,
     TTL |-> IF ttlSeconds > 0 THEN ttlSeconds ELSE 0]

\* the memoryEntry that Incr stores at time now
incrEntry(newValue, now) ==
    [Value |-> number(newValue), CreatedAt |-> now,
     ExpiresAt |-> ZeroTime, TTL |-> 0]

\* the amount of the incr and decr actions: 1 unless the value is a number
toolAmount(value) == IF value.kind = "float64" THEN value.num ELSE 1

\* the handler of NewMemoryTool: goroutine g calls the MemoryStore method of
\* the action and comes to wait for the lock of that method
toolCall(g, action, key, value, ttl) ==
    /\ callers.procs[g].pc = "idle"
    /\ callers.ncalls < MaxStoreCalls
    /\ callers' = [callers EXCEPT
          !.ncalls = @ + 1,
          !.procs[g] = [idleCaller EXCEPT
              !.pc = IF action = "get" THEN "rlock" ELSE "lock",
              !.action = action,
              !.op = CASE action = "set" -> "Set"
                       [] action = "get" -> "Get"
                       [] action = "delete" -> "Delete"
                       [] action = "clear" -> "Clear"
                       [] action \in {"incr", "decr"} -> "Incr",
              !.key = key, !.value = value, !.ttl = ttl,
              !.amount = CASE action = "incr" -> toolAmount(value)
                           [] action = "decr" -> 0 - toolAmount(value)
                           [] OTHER -> 0]]
    /\ UNCHANGED <<trees, calls, ret, inflight, http, engine, store, adapter>>

\* m.mu.Lock() of Set, Delete, Clear and Incr
storeLock(g) ==
    /\ callers.procs[g].pc = "lock"
    /\ canLock(store.mu)
    /\ store' = [store EXCEPT !.mu.writer = g]
    /\ callers' = [callers EXCEPT !.procs[g].pc = "body"]
    /\ UNCHANGED <<trees, calls, ret, inflight, http, engine, adapter>>

\* m.mu.RLock() of Get
storeRLock(g) ==
    /\ callers.procs[g].pc = "rlock"
    /\ canRLock(store.mu)
    /\ store' = [store EXCEPT !.mu.readers = @ \cup {g}]
    /\ callers' = [callers EXCEPT !.procs[g].pc = "body"]
    /\ UNCHANGED <<trees, calls, ret, inflight, http, engine, adapter>>

\* MemoryStore.Set lines 178-194
setBody(g) ==
    LET p == callers.procs[g]
    IN  /\ p.pc = "body" /\ p.op = "Set"
        /\ store' = [store EXCEPT
              !.data = MapPut(@, p.key, setEntry(p.value, p.ttl, store.now))]
        /\ callers' = [callers EXCEPT !.procs[g].pc = "unlock",
                                      !.procs[g].at = store.now]
        /\ UNCHANGED <<trees, calls, ret, inflight, http, engine, adapter>>

\* MemoryStore.Get lines 202-238: the entry is absent, expired or returned
getBody(g) ==
    LET p == callers.procs[g]
    IN  /\ p.pc = "body" /\ p.op = "Get"
        /\ callers' = [callers EXCEPT !.procs[g] =
              IF p.key \notin DOMAIN store.data
              THEN [p EXCEPT !.pc = "runlock", !.at = store.now]
              ELSE LET entry == store.data[p.key]
                   IN  IF entry.ExpiresAt # ZeroTime /\ store.now > entry.ExpiresAt
                       THEN [p EXCEPT !.pc = "expired", !.at = store.now]
                       ELSE [p EXCEPT !.pc = "runlock", !.at = store.now,
                                      !.result.found = TRUE,
                                      !.result.value = entry.Value]]
        /\ UNCHANGED <<trees, calls, ret, inflight, http, engine, store, adapter>>

\* MemoryStore.Get line 213: m.mu.RUnlock() before the expired key is deleted
getRUnlock(g) ==
    /\ callers.procs[g].pc = "expired"
    /\ store' = [store EXCEPT !.mu.readers = @ \ {g}]
    /\ callers' = [callers EXCEPT !.procs[g].pc = "relock"]
    /\ UNCHANGED <<trees, calls, ret, inflight, http, engine, adapter>>

\* MemoryStore.Get line 214: m.mu.Lock()
getLock(g) ==
    /\ callers.procs[g].pc = "relock"
    /\ canLock(store.mu)
    /\ store' = [store EXCEPT !.mu.writer = g]
    /\ callers' = [callers EXCEPT !.procs[g].pc = "delete"]
    /\ UNCHANGED <<trees, calls, ret, inflight, http, engine, adapter>>

\* MemoryStore.Get lines 215-216: delete(m.data, key) and m.mu.Unlock()
getDelete(g) ==
    /\ callers.procs[g].pc = "delete"
    /\ store' = [store EXCEPT !.data = MapDelete(@, callers.procs[g].key),
                              !.mu.writer = 0]
    /\ callers' = [callers EXCEPT !.procs[g].pc = "rerlock"]
    /\ UNCHANGED <<trees, calls, ret, inflight, http, engine, adapter>>

\* MemoryStore.Get lines 217-223: m.mu.RLock() and the expired result
getRLock(g) ==
    /\ callers.procs[g].pc = "rerlock"
    /\ canRLock(store.mu)
    /\ store' = [store EXCEPT !.mu.readers = @ \cup {g}]
    /\ callers' = [callers EXCEPT !.procs[g].pc = "runlock",
                                  !.procs[g].result.expired = TRUE]
    /\ UNCHANGED <<trees, calls, ret, inflight, http, engine, adapter>>

\* MemoryStore.Delete lines 246-254
deleteBody(g) ==
    LET p == callers.procs[g]
    IN  /\ p.pc = "body" /\ p.op = "Delete"
        /\ store' = [store EXCEPT !.data = MapDelete(@, p.key),
                                  !.lists = MapDelete(@, p.key)]
        /\ callers' = [callers EXCEPT
              !.procs[g].pc = "unlock",
              !.procs[g].result.existed = (p.key \in DOMAIN store.data)]
        /\ UNCHANGED <<trees, calls, ret, inflight, http, engine, adapter>>

\* MemoryStore.Clear lines 303-310
clearBody(g) ==
    LET p == callers.procs[g]
    IN  /\ p.pc = "body" /\ p.op = "Clear"
        /\ store' = [store EXCEPT !.data = NoEntries, !.lists = NoEntries]
        /\ callers' = [callers EXCEPT !.procs[g].pc = "unlock"]
        /\ UNCHANGED <<trees, calls, ret, inflight, http, engine, adapter>>

\* an Incr that starts from 0 when the TTL of the entry has elapsed
incrRead_expiredIsZero(g) ==
    LET p == callers.procs[g]
    IN  /\ p.pc = "body" /\ p.op = "Incr"
        /\ callers' = [callers EXCEPT
              !.procs[g].pc = "write",
              !.procs[g].current =
                  IF p.key \in DOMAIN store.data
                        /\ store.data[p.key].Value.kind = "float64"
                        /\ ~(store.data[p.key].ExpiresAt # ZeroTime
                                /\ store.now > store.data[p.key].ExpiresAt)
                  THEN store.data[p.key].Value.num
                  ELSE 0]
        /\ UNCHANGED <<trees, calls, ret, inflight, http, engine, store, adapter>>

\* MemoryStore.Incr lines 318-325: current is read from the entry
incrRead(g) ==
    LET p == callers.procs[g]
    IN  /\ p.pc = "body" /\ p.op = "Incr"
        /\ callers' = [callers EXCEPT
              !.procs[g].pc = "write",
              !.procs[g].current =
                  IF p.key \in DOMAIN store.data
                        /\ store.data[p.key].Value.kind = "float64"
                  THEN store.data[p.key].Value.num
                  ELSE 0]
        /\ UNCHANGED <<trees, calls, ret, inflight, http, engine, store, adapter>>

\* MemoryStore.Incr lines 327-337: the new value is stored
incrWrite(g) ==
    LET p == callers.procs[g]
        newValue == p.current + p.amount
    IN  /\ p.pc = "write"
        /\ store' = [store EXCEPT
              !.data = MapPut(@, p.key, incrEntry(newValue, store.now))]
        /\ callers' = [callers EXCEPT
              !.procs[g].pc = "unlock",
              !.procs[g].at = store.now,
              !.procs[g].result.previous = p.current,
              !.procs[g].result.current = newValue]
        /\ UNCHANGED <<trees, calls, ret, inflight, http, engine, adapter>>

\* what the history holds for the keys after the call p has returned: the
\* value, the ttl and the time of the Set that stored last, for the keys that
\* were not deleted, cleared, counted or removed as expired since
storedAfter(stored, p) ==
    CASE p.op = "Set" ->
            MapPut(stored, p.key, [value |-> p.value, ttl |-> p.ttl, at |-> p.at])
      [] p.op = "Clear" -> NoEntries
      [] p.op \in {"Delete", "Incr"} -> MapDelete(stored, p.key)
      [] p.op = "Get" ->
            IF p.result.expired THEN MapDelete(stored, p.key) ELSE stored

\* the number an incr or decr call was asked to add
Delta(p) ==
    IF p.op # "Incr" THEN 0
    ELSE (IF p.action = "incr" THEN 1 ELSE 0 - 1) *
         (IF p.value.kind = "float64" THEN p.value.num ELSE 1)

\* the deferred m.mu.Unlock() or m.mu.RUnlock(), and the return
storeReturn(g) ==
    LET p == callers.procs[g]
    IN  /\ p.pc \in {"unlock", "runlock"}
        /\ store' = [store EXCEPT
              !.mu = IF p.pc = "unlock"
                     THEN [@ EXCEPT !.writer = 0]
                     ELSE [@ EXCEPT !.readers = @ \ {g}]]
        /\ callers' = [callers EXCEPT
              !.procs[g] = idleCaller,
              !.last = [p EXCEPT !.pc = "returned"],
              !.stored = storedAfter(@, p),
              !.sum = @ + Delta(p)]
        /\ UNCHANGED <<trees, calls, ret, inflight, http, engine, adapter>>

\* a second passes
tick ==
    /\ store.now < MaxTime
    /\ store' = [store EXCEPT !.now = @ + 1]
    /\ UNCHANGED <<trees, calls, ret, inflight, http, engine, callers, adapter>>

\* a step inside a MemoryStore method
storeStep(g) ==
    \/ storeLock(g) \/ storeRLock(g)
    \/ setBody(g)
    \/ getBody(g) \/ getRUnlock(g) \/ getLock(g) \/ getDelete(g) \/ getRLock(g)
    \/ deleteBody(g) \/ clearBody(g)
    \/ incrRead(g) \/ incrWrite(g)
    \/ storeReturn(g)

\* the key of the counter, and the values of the incr and decr actions: none,
\* or the number 2
CounterKeys == {"k"}
CounterValues == {nilValue, number(2)}

\* the counter before the calls: absent, or left at 5 by earlier calls
CounterStarts == {NoEntries, [k \in CounterKeys |-> incrEntry(5, StartTime)]}

\* the router idle, and a store whose counter is absent or holds a number
InitCounter ==
    /\ trees = newRouter /\ calls = << >> /\ ret = noRet("new")
    /\ inflight = [g \in Goroutines |-> idle]
    /\ http = noRequest /\ engine = newEngine /\ adapter = noChat
    /\ \E data \in CounterStarts :
          /\ store = [newStore EXCEPT !.data = data]
          /\ callers = [noCallers EXCEPT
                !.initial = IF "k" \in DOMAIN data THEN data["k"].Value.num ELSE 0]

NextCounter ==
    \E g \in Goroutines :
        \/ \E action \in {"incr", "decr"}, key \in CounterKeys, value \in CounterValues :
              toolCall(g, action, key, value, 0)
        \/ storeLock(g)
        \/ incrRead(g)
        \/ incrWrite(g)
        \/ storeReturn(g)

\* goroutines that call incr and decr on one key concurrently
SpecCounter == InitCounter /\ [][NextCounter]_vars

\* every call of the store has returned
AllReturned == \A g \in Goroutines : callers.procs[g].pc = "idle"

(***************************************************************************)
(* C13: the counter operations are atomic. Each incr or decr call returns  *)
(* previous and current values that differ by the amount it was asked to   *)
(* add, and when all the calls made concurrently on the key have returned, *)
(* the counter holds its initial value (0 for an absent key) plus the sum  *)
(* of the amounts of the calls, in whatever order their steps ran.         *)
(***************************************************************************)
C13_CounterAtomic ==
    /\ callers.last.op = "Incr" =>
          callers.last.result.current - callers.last.result.previous
              = Delta(callers.last)
    /\ (AllReturned /\ callers.ncalls > 0) =>
          /\ "k" \in DOMAIN store.data
          /\ store.data["k"].Value = number(callers.initial + callers.sum)

\* three calls have run on a counter that started at 5, two of them at the
\* same time, and the counter holds 5 + 2 + 1 - 2
C13_Witness ==
    /\ AllReturned
    /\ callers.ncalls = 3
    /\ callers.initial = 5
    /\ callers.sum = 1
    /\ callers.last.action = "decr"
    /\ callers.last.result.previous = 8
    /\ store.data["k"].Value = number(6)


\* the keys, the values and the ttl arguments of the set action
TTLKeys == {"k", "j"}
TTLValues == {stringValue("a"), stringValue("b")}
TTLs == {0, 1, 2}

\* the goroutine of a caller that makes one call after the other
Caller == 1

\* the calls of the memory tool that the caller makes
callTTL ==
    \/ \E key \in TTLKeys, value \in TTLValues, ttl \in TTLs :
          toolCall(Caller, "set", key, value, ttl)
    \/ \E action \in {"get", "delete", "incr"}, key \in TTLKeys :
          toolCall(Caller, action, key, nilValue, 0)
    \/ toolCall(Caller, "clear", "", nilValue, 0)

NextTTL == callTTL \/ storeStep(Caller) \/ tick

\* one caller sets, gets, deletes, clears and counts while time passes
SpecTTL == Init /\ [][NextTTL]_vars

\* a Get that is about to return
GetReturns(p) == p.op = "Get" /\ p.pc = "runlock"

(***************************************************************************)
(* C14: a value stored with set and ttl > 0 is returned by get while the   *)
(* TTL has not elapsed; a get after it has elapsed reports found=false     *)
(* with expired=true and the entry is removed; a value stored with ttl 0   *)
(* is returned by get at any later time, until the key is overwritten,     *)
(* deleted or cleared. (At the very instant the TTL elapses either answer  *)
(* is allowed.)                                                            *)
(***************************************************************************)
C14_GetHonoursTTL ==
    LET p == callers.procs[Caller]
    IN  (GetReturns(p) /\ p.key \in DOMAIN callers.stored) =>
            LET w == callers.stored[p.key]
            IN  /\ (w.ttl > 0 /\ p.at > w.at + w.ttl) =>
                      /\ ~p.result.found
                      /\ p.result.expired
                      /\ p.key \notin DOMAIN store.data
                /\ (w.ttl <= 0 \/ p.at < w.at + w.ttl) =>
                      /\ p.result.found
                      /\ ~p.result.expired
                      /\ p.result.value = w.value

\* the value set with ttl 1 at the start is asked for two seconds later or
\* more: the get answers expired and the key is gone from the store
C14_Witness ==
    LET p == callers.procs[Caller]
    IN  /\ GetReturns(p)
        /\ p.key \in DOMAIN callers.stored
        /\ callers.stored[p.key].ttl = 1
        /\ callers.stored[p.key].at = StartTime
        /\ p.at > StartTime + 1
        /\ p.result.expired
        /\ p.key \notin DOMAIN store.data


(***************************************************************************)
(* The adapters (src/adapter/anthropic_adapter.go, src/blaze.go): the      *)
(* handler an adapter returns, run statement by statement on one request.  *)
(* A request body is the JSON value it starts with and its syntax: valid   *)
(* (the value and nothing else), trailing (the value followed by further   *)
(* text) or malformed (no JSON value at its start).                        *)
(***************************************************************************)
\* the number of content blocks of a message, and of tool calls of a message
MaxBlocks == 2

\* the names of the tools handed to the adapter, and the names requests use
RegisteredTools == {"echo", "fail"}
ToolNames == RegisteredTools \cup {"nope"}

\* the ids requests give to their tool_use blocks and tool calls
BlockIDs == {"a", "b"}

\* the sequences over S of length 0..n
SeqsUpTo(S, n) == UNION {[1..k -> S] : k \in 0..n}

\* AnthropicContentBlock values of a request
textBlock == [Type |-> "text", ID |-> "", Name |-> ""]
toolUse(id, name) == [Type |-> "tool_use", ID |-> id, Name |-> name]
BlockChoices == {textBlock} \cup {toolUse(id, name) : id \in BlockIDs, name \in ToolNames}

\* the content of an AnthropicMessage: a string, or an array of blocks
stringContent == [kind |-> "string", blocks |-> << >>]
blocksContent(bs) == [kind |-> "blocks", blocks |-> bs]
AnthropicContents ==
    {stringContent} \cup {blocksContent(bs) : bs \in SeqsUpTo(BlockChoices, MaxBlocks)}

\* the chat requests: no message, or a last message of either role with any
\* content, alone or after an assistant message
AnthropicRequests ==
    {[Messages |-> << >>, Stream |-> st] : st \in BOOLEAN} \cup
    {[Messages |-> pre \o <<[Role |-> role, Content |-> c]>>, Stream |-> st] :
        pre \in {<< >>, <<[Role |-> "assistant", Content |-> stringContent]>>},
        role \in {"user", "assistant"}, c \in AnthropicContents, st \in BOOLEAN}

\* the request bodies
AnthropicBodies ==
    {malformedBody} \cup
    {[syntax |-> sx, value |-> r] : sx \in {"valid", "trailing"}, r \in AnthropicRequests}

\* Context.BindJSON: json.NewDecoder(body).Decode(v) decodes the JSON value the
\* body starts with and does not read what follows it
BindJSON(body) ==
    [err |-> body.syntax = "malformed", value |-> body.value]

\* parseContentBlocks: a string becomes one text block, an array its blocks
parseContentBlocks(content) ==
    IF content.kind = "string" THEN <<textBlock>> ELSE content.blocks

\* tool.Handler: the handler of the tool fail returns an error
handlerFails(name) == name = "fail"

\* the Content of a tool result
notFoundContent(name) == <<"error", "not found", name>>
errorContent(name) == <<"error", "failed", name>>
resultContent(name) == <<"result", name>>

\* executeToolBlock: the tool_result block for a tool_use block
executeToolBlock(block) ==
    [Type |-> "tool_result", ToolUseID |-> block.ID,
     Content |-> IF block.Name \notin RegisteredTools THEN notFoundContent(block.Name)
                 ELSE IF handlerFails(block.Name) THEN errorContent(block.Name)
                 ELSE resultContent(block.Name)]

\* the handler calls executeToolBlock makes: one for a registered tool
handlerCalls(block) ==
    IF block.Name \in RegisteredTools
    THEN <<[name |-> block.Name, id |-> block.ID]>> ELSE << >>

\* ctx.JSON(400, ...) with the error message, and return
reject(a, message) ==
    [a EXCEPT !.pc = "done", !.status = 400, !.answer = message]

\* the handler returned by AnthropicAdapter is called with a request body
anthropicCall(body) ==
    /\ adapter.pc = "idle"
    /\ adapter' = [noChat EXCEPT !.pc = "bind", !.api = "anthropic", !.body = body]
    /\ UNCHANGED <<trees, calls, ret, inflight, http, engine, memory>>

\* AnthropicAdapter lines 99-108: ctx.BindJSON(&req)
anthropicBind ==
    /\ adapter.pc = "bind" /\ adapter.api = "anthropic"
    /\ LET d == BindJSON(adapter.body)
       IN  adapter' = IF d.err THEN reject(adapter, "Invalid request")
                      ELSE [adapter EXCEPT !.pc = "messages", !.req = d.value]
    /\ UNCHANGED <<trees, calls, ret, inflight, http, engine, memory>>

\* AnthropicAdapter lines 110-118: len(req.Messages) == 0
anthropicMessages ==
    /\ adapter.pc = "messages" /\ adapter.api = "anthropic"
    /\ adapter' = IF Len(adapter.req.Messages) = 0
                  THEN reject(adapter, "Messages array is required")
                  ELSE [adapter EXCEPT !.pc = "role"]
    /\ UNCHANGED <<trees, calls, ret, inflight, http, engine, memory>>

\* AnthropicAdapter lines 121-133: the role of the last message, and
\* parseContentBlocks of its content
anthropicRole ==
    /\ adapter.pc = "role"
    /\ LET lastMessage == adapter.req.Messages[Len(adapter.req.Messages)]
       IN  adapter' = IF lastMessage.Role # "user"
                      THEN reject(adapter, "Last message must be from user")
                      ELSE [adapter EXCEPT
                              !.pc = "blocks", !.i = 1,
                              !.blocks = parseContentBlocks(lastMessage.Content)]
    /\ UNCHANGED <<trees, calls, ret, inflight, http, engine, memory>>

\* the loop that ends at the first tool_use block whose result is an error
anthropicBlock_stopOnError ==
    /\ adapter.pc = "blocks" /\ adapter.api = "anthropic"
    /\ adapter.i <= Len(adapter.blocks)
    /\ LET block == adapter.blocks[adapter.i]
       IN  adapter' =
              IF block.Type = "tool_use"
              THEN [adapter EXCEPT
                      !.hasToolUse = TRUE,
                      !.toolResults = Append(@, executeToolBlock(block)),
                      !.executed = @ \o handlerCalls(block),
                      !.i = IF executeToolBlock(block).Content[1] = "error"
                            THEN Len(adapter.blocks) + 1 ELSE @ + 1]
              ELSE [adapter EXCEPT !.i = @ + 1]
    /\ UNCHANGED <<trees, calls, ret, inflight, http, engine, memory>>

\* AnthropicAdapter lines 139-145: one iteration of the loop over the blocks
anthropicBlock ==
    /\ adapter.pc = "blocks" /\ adapter.api = "anthropic"
    /\ adapter.i <= Len(adapter.blocks)
    /\ LET block == adapter.blocks[adapter.i]
       IN  adapter' =
              IF block.Type = "tool_use"
              THEN [adapter EXCEPT
                      !.hasToolUse = TRUE,
                      !.toolResults = Append(@, executeToolBlock(block)),
                      !.executed = @ \o handlerCalls(block),
                      !.i = @ + 1]
              ELSE [adapter EXCEPT !.i = @ + 1]
    /\ UNCHANGED <<trees, calls, ret, inflight, http, engine, memory>>

\* AnthropicAdapter lines 148-156: handleNoToolUse, streamAnthropicResponse or
\* sendAnthropicResponse
anthropicRespond ==
    /\ adapter.pc = "blocks" /\ adapter.api = "anthropic"
    /\ adapter.i > Len(adapter.blocks)
    /\ adapter' =
          IF ~adapter.hasToolUse
          THEN [adapter EXCEPT !.pc = "done", !.status = 200, !.answer = "tools"]
          ELSE [adapter EXCEPT
                  !.pc = "done", !.status = 200,
                  !.answer = IF adapter.req.Stream THEN "stream" ELSE "results",
                  !.content = adapter.toolResults]
    /\ UNCHANGED <<trees, calls, ret, inflight, http, engine, memory>>

\* the handler returns after it has written its response
adapterReturn ==
    /\ adapter.pc = "done"
    /\ adapter' = noChat
    /\ UNCHANGED <<trees, calls, ret, inflight, http, engine, memory>>

NextAnthropic ==
    \/ \E body \in AnthropicBodies : anthropicCall(body)
    \/ anthropicBind
    \/ anthropicMessages
    \/ anthropicRole
    \/ anthropicBlock
    \/ anthropicRespond
    \/ adapterReturn

\* the handler of AnthropicAdapter(echo, fail) serves one request after another
SpecAnthropic == Init /\ [][NextAnthropic]_vars

\* the body is the text of one JSON value
ValidJSON(body) == body.syntax = "valid"

\* the last message of a request with messages
LastMessage(r) == r.Messages[Len(r.Messages)]

\* the tool_use blocks of the last message of a request, in order
ToolUses(r) ==
    SelectSeq(parseContentBlocks(LastMessage(r).Content),
              LAMBDA b : b.Type = "tool_use")

(***************************************************************************)
(* C15: AnthropicAdapter rejects with status 400, and executes no tool     *)
(* handler, a body that is not valid JSON, else a request without          *)
(* messages, else a request whose last message is not from the user; the   *)
(* checks run in this order and before any block is examined.              *)
(***************************************************************************)
C15_AnthropicRejects ==
    adapter.api = "anthropic" =>
        LET b == adapter.body
            r == b.value
            reason ==
                IF ~ValidJSON(b) THEN "Invalid request"
                ELSE IF Len(r.Messages) = 0 THEN "Messages array is required"
                ELSE IF LastMessage(r).Role # "user"
                THEN "Last message must be from user"
                ELSE ""
        IN  reason # "" =>
                /\ adapter.executed = << >>
                /\ adapter.i = 0
                /\ adapter.pc = "done" =>
                      adapter.status = 400 /\ adapter.answer = reason


\* a tool result carries error content
IsErrorResult(result) == result.Content[1] = "error"

\* the request of the handler is valid, its last message is from the user and
\* has tool_use blocks, and a non-streaming response is asked for
ToolUseRequest ==
    /\ adapter.api = "anthropic"
    /\ ValidJSON(adapter.body)
    /\ Len(adapter.body.value.Messages) > 0
    /\ LastMessage(adapter.body.value).Role = "user"
    /\ Len(ToolUses(adapter.body.value)) >= 1
    /\ ~adapter.body.value.Stream

(***************************************************************************)
(* C16: for a valid Anthropic request whose last user message has k >= 1   *)
(* tool_use blocks, the non-streaming response has status 200 and exactly  *)
(* k tool_result blocks, the j-th with the id of the j-th tool_use block;  *)
(* the result of a block is an error exactly when its tool is not          *)
(* registered or its handler fails, and the handler of every block naming  *)
(* a registered tool is called, in block order, whatever the results of    *)
(* the blocks before it.                                                   *)
(***************************************************************************)
C16_AnthropicToolResults ==
    (ToolUseRequest /\ adapter.pc = "done") =>
        LET uses == ToolUses(adapter.body.value)
        IN  /\ adapter.status = 200
            /\ adapter.answer = "results"
            /\ Len(adapter.content) = Len(uses)
            /\ \A j \in 1..Len(uses) :
                  /\ adapter.content[j].Type = "tool_result"
                  /\ adapter.content[j].ToolUseID = uses[j].ID
                  /\ IsErrorResult(adapter.content[j])
                        <=> (uses[j].Name \notin RegisteredTools \/ handlerFails(uses[j].Name))
            /\ adapter.executed =
                  [j \in 1..Len(SelectSeq(uses, LAMBDA b : b.Name \in RegisteredTools)) |->
                      [name |-> SelectSeq(uses, LAMBDA b : b.Name \in RegisteredTools)[j].Name,
                       id |-> SelectSeq(uses, LAMBDA b : b.Name \in RegisteredTools)[j].ID]]

\* a response to two tool_use blocks, the first failing, the second executed
C16_Witness ==
    /\ ToolUseRequest /\ adapter.pc = "done"
    /\ Len(adapter.content) = 2
    /\ IsErrorResult(adapter.content[1])
    /\ ~IsErrorResult(adapter.content[2])
    /\ adapter.content[2].ToolUseID = "b"
    /\ adapter.executed[Len(adapter.executed)] = [name |-> "echo", id |-> "b"]


(***************************************************************************)
(* OpenAIAdapter (the adapter package in src/blaze.go).                    *)
(***************************************************************************)
\* OpenAIToolCall and OpenAIMessage values of a request
functionCall(id, name) == [ID |-> id, Function |-> [Name |-> name]]
CallChoices == {functionCall(id, name) : id \in BlockIDs, name \in ToolNames}
openaiMessage(role, toolCalls) == [Role |-> role, ToolCalls |-> toolCalls]
OpenAIMessages ==
    {openaiMessage(role, tcs) :
        role \in {"user", "assistant"}, tcs \in SeqsUpTo(CallChoices, MaxBlocks)}

\* the messages before the last one: none, or one message
EarlierMessages ==
    {<< >>,
     <<openaiMessage("user", << >>)>>,
     <<openaiMessage("assistant", <<functionCall("a", "echo")>>)>>,
     <<openaiMessage("assistant", <<functionCall("b", "fail")>>)>>}

\* OpenAIChatRequest values and the bodies that carry them
OpenAIRequests ==
    {[Messages |-> << >>, Stream |-> st] : st \in BOOLEAN} \cup
    {[Messages |-> pre \o <<m>>, Stream |-> st] :
        pre \in EarlierMessages, m \in OpenAIMessages, st \in BOOLEAN}
OpenAIBodies ==
    {malformedBody} \cup
    {[syntax |-> sx, value |-> r] : sx \in {"valid", "trailing"}, r \in OpenAIRequests}

\* the scan that takes the first message, in request order, with tool calls
findToolCalls_fromFront(messages, i) ==
    LET hits == {j \in 1..i : messages[j].Role = "assistant" /\ Len(messages[j].ToolCalls) > 0}
    IN  IF hits = {} THEN << >>
        ELSE messages[CHOOSE j \in hits : \A k \in hits : j <= k].ToolCalls

\* OpenAIAdapter lines 346-353: the loop from message i down to the first
\* message, stopping at an assistant message with tool calls
RECURSIVE findToolCalls(_, _)
findToolCalls(messages, i) ==
    IF i = 0 THEN << >>
    ELSE IF messages[i].Role = "assistant" /\ Len(messages[i].ToolCalls) > 0
    THEN messages[i].ToolCalls
    ELSE findToolCalls(messages, i - 1)

\* OpenAIAdapter lines 362-390: the tool message for one tool call
toolMessage(tc) ==
    [Role |-> "tool", ToolCallID |-> tc.ID,
     Content |-> IF tc.Function.Name \notin RegisteredTools
                 THEN notFoundContent(tc.Function.Name)
                 ELSE IF handlerFails(tc.Function.Name) THEN errorContent(tc.Function.Name)
                 ELSE resultContent(tc.Function.Name)]

\* the handler calls of one iteration: one for a registered tool
toolHandlerCalls(tc) ==
    IF tc.Function.Name \in RegisteredTools
    THEN <<[name |-> tc.Function.Name, id |-> tc.ID]>> ELSE << >>

\* sendOpenAIResponse: the contents of the results, joined in order
combinedContent(toolResults) ==
    [j \in 1..Len(toolResults) |-> toolResults[j].Content]

\* the handler returned by OpenAIAdapter is called with a request body
openaiCall(body) ==
    /\ adapter.pc = "idle"
    /\ adapter' = [noChat EXCEPT !.pc = "bind", !.api = "openai", !.body = body]
    /\ UNCHANGED <<trees, calls, ret, inflight, http, engine, memory>>

\* OpenAIAdapter lines 326-334: ctx.BindJSON(&req)
openaiBind ==
    /\ adapter.pc = "bind" /\ adapter.api = "openai"
    /\ LET d == BindJSON(adapter.body)
       IN  adapter' = IF d.err THEN reject(adapter, "Invalid request")
                      ELSE [adapter EXCEPT !.pc = "messages", !.req = d.value]
    /\ UNCHANGED <<trees, calls, ret, inflight, http, engine, memory>>

\* OpenAIAdapter lines 336-343: len(req.Messages) == 0
openaiMessages ==
    /\ adapter.pc = "messages" /\ adapter.api = "openai"
    /\ adapter' = IF Len(adapter.req.Messages) = 0
                  THEN reject(adapter, "Messages array is required")
                  ELSE [adapter EXCEPT !.pc = "scan"]
    /\ UNCHANGED <<trees, calls, ret, inflight, http, engine, memory>>

\* OpenAIAdapter lines 345-358: find the tool calls; handleNoToolCalls when
\* there are none
openaiScan ==
    /\ adapter.pc = "scan"
    /\ LET toolCalls == findToolCalls(adapter.req.Messages, Len(adapter.req.Messages))
       IN  adapter' =
              IF Len(toolCalls) = 0
              THEN [adapter EXCEPT !.pc = "done", !.status = 200, !.answer = "tools"]
              ELSE [adapter EXCEPT !.pc = "calls", !.blocks = toolCalls, !.i = 1]
    /\ UNCHANGED <<trees, calls, ret, inflight, http, engine, memory>>

\* OpenAIAdapter lines 361-391: one iteration of the loop over the tool calls
openaiToolCall ==
    /\ adapter.pc = "calls"
    /\ adapter.i <= Len(adapter.blocks)
    /\ LET tc == adapter.blocks[adapter.i]
       IN  adapter' = [adapter EXCEPT
                         !.toolResults = Append(@, toolMessage(tc)),
                         !.executed = @ \o toolHandlerCalls(tc),
                         !.i = @ + 1]
    /\ UNCHANGED <<trees, calls, ret, inflight, http, engine, memory>>

\* OpenAIAdapter lines 393-397: streamOpenAIResponse or sendOpenAIResponse
openaiRespond ==
    /\ adapter.pc = "calls"
    /\ adapter.i > Len(adapter.blocks)
    /\ adapter' =
          IF adapter.req.Stream
          THEN [adapter EXCEPT !.pc = "done", !.status = 200, !.answer = "stream",
                               !.content = adapter.toolResults]
          ELSE [adapter EXCEPT !.pc = "done", !.status = 200, !.answer = "results",
                               !.content = combinedContent(adapter.toolResults)]
    /\ UNCHANGED <<trees, calls, ret, inflight, http, engine, memory>>

NextOpenAI ==
    \/ \E body \in OpenAIBodies : openaiCall(body)
    \/ openaiBind
    \/ openaiMessages
    \/ openaiScan
    \/ openaiToolCall
    \/ openaiRespond
    \/ adapterReturn

\* the handler of OpenAIAdapter(echo, fail) serves one request after another
SpecOpenAI == Init /\ [][NextOpenAI]_vars

\* the tool calls of the last assistant message of r that carries tool calls
LastToolCalls(r) ==
    LET hits == {j \in 1..Len(r.Messages) :
                    r.Messages[j].Role = "assistant" /\ Len(r.Messages[j].ToolCalls) > 0}
    IN  IF hits = {} THEN << >>
        ELSE r.Messages[CHOOSE j \in hits : \A k \in hits : k <= j].ToolCalls

\* the calls among tcs that name a registered tool, as handler calls in order
RegisteredCalls(tcs) ==
    LET reg == SelectSeq(tcs, LAMBDA tc : tc.Function.Name \in RegisteredTools)
    IN  [j \in 1..Len(reg) |-> [name |-> reg[j].Function.Name, id |-> reg[j].ID]]

\* the handler has answered a request that decodes and has messages
OpenAIAnswered ==
    /\ adapter.api = "openai" /\ adapter.pc = "done"
    /\ ~BindJSON(adapter.body).err
    /\ Len(adapter.body.value.Messages) > 0

(***************************************************************************)
(* C17: OpenAIAdapter executes exactly the tool calls of the last          *)
(* assistant message that carries tool calls: one tool result per call,    *)
(* in call order, with the call's id, an error result exactly for an       *)
(* unknown tool or a failing handler, every registered call executed, and  *)
(* status 200; with no such message no handler is executed and the answer  *)
(* is 200 with the available-tools message.                                *)
(***************************************************************************)
C17_OpenAIToolCalls ==
    OpenAIAnswered =>
        LET tcs == LastToolCalls(adapter.body.value)
        IN  /\ adapter.status = 200
            /\ adapter.executed = RegisteredCalls(tcs)
            /\ IF tcs = << >>
               THEN adapter.answer = "tools" /\ adapter.toolResults = << >>
               ELSE /\ adapter.answer \in {"results", "stream"}
                    /\ Len(adapter.toolResults) = Len(tcs)
                    /\ \A j \in 1..Len(tcs) :
                          /\ adapter.toolResults[j].Role = "tool"
                          /\ adapter.toolResults[j].ToolCallID = tcs[j].ID
                          /\ IsErrorResult(adapter.toolResults[j])
                                <=> \/ tcs[j].Function.Name \notin RegisteredTools
                                    \/ handlerFails(tcs[j].Function.Name)
                    /\ adapter.answer = "results" =>
                          adapter.content = combinedContent(adapter.toolResults)

\* two assistant messages carry tool calls and the calls of the later one,
\* the first failing and the second succeeding, are the ones executed
C17_Witness ==
    /\ OpenAIAnswered
    /\ Len(adapter.body.value.Messages) = 2
    /\ adapter.body.value.Messages[1].ToolCalls = <<functionCall("a", "echo")>>
    /\ adapter.body.value.Messages[2].Role = "assistant"
    /\ adapter.body.value.Messages[2].ToolCalls = <<functionCall("b", "fail"), functionCall("b", "echo")>>
    /\ adapter.executed = <<[name |-> "fail", id |-> "b"], [name |-> "echo", id |-> "b"]>>
    /\ Len(adapter.toolResults) = 2


(***************************************************************************)
(* The shape of the trees.                                                 *)
(***************************************************************************)
\* the kinds of children of a node
ParamChildren(n) == {i \in ChildIndices(n) : n.children[i].path = <<":">>}
WildcardChildren(n) == {i \in ChildIndices(n) : n.children[i].wildcard}
LiteralChildren(n) == ChildIndices(n) \ (ParamChildren(n) \cup WildcardChildren(n))

\* the children of n are unique by literal segment
LiteralsUnique(n) ==
    \A i, j \in LiteralChildren(n) :
        n.children[i].path = n.children[j].path => i = j

RECURSIVE ChildrenUnique(_)
\* every node of the tree below n has children unique by literal segment, at
\* most one parameter child and at most one wildcard child
ChildrenUnique(n) ==
    /\ LiteralsUnique(n)
    /\ Cardinality(ParamChildren(n)) <= 1
    /\ Cardinality(WildcardChildren(n)) <= 1
    /\ \A i \in ChildIndices(n) : ChildrenUnique(n.children[i])

(***************************************************************************)
(* C18: after any sequence of registrations every node of every method     *)
(* tree has children unique by literal segment, at most one parameter      *)
(* child and at most one wildcard child: a wildcard pattern registered at  *)
(* a position that has a wildcard child reuses that child.                 *)
(***************************************************************************)
C18_ChildrenUnique ==
    \A method \in DOMAIN trees : ChildrenUnique(trees[method])


RECURSIVE Nodes(_)
\* the nodes of the tree below n, n included
Nodes(n) == {n} \cup UNION {Nodes(n.children[i]) : i \in ChildIndices(n)}

\* the literal children of n whose segment is seg
LiteralMatches(n, seg) == {i \in LiteralChildren(n) : n.children[i].path = seg}

\* Router.matchChild at node n follows the precedence for the segment seg
Precedence(n, seg) ==
    LET m   == matchChild(n, seg, EmptyMap)
        lit == LiteralMatches(n, seg)
    IN  /\ lit # {} => m.child \in lit /\ m.params = EmptyMap
        /\ (lit = {} /\ ParamChildren(n) # {}) =>
              /\ m.child \in ParamChildren(n)
              /\ Binds(m.params, n.children[m.child].param, seg)
        /\ m.child \in WildcardChildren(n) => (lit = {} /\ ParamChildren(n) = {})
        /\ (lit = {} /\ ParamChildren(n) = {} /\ WildcardChildren(n) # {}) =>
              m.child \in WildcardChildren(n)

(***************************************************************************)
(* C19: at each node lookup selects the child by strict precedence         *)
(* literal, then parameter, then wildcard, whatever the order of the       *)
(* registrations: for every node of the tree of a lookup's method and      *)
(* every segment of its request, a literal child equal to the segment is   *)
(* taken and binds nothing; without one, a parameter child is taken and    *)
(* binds the segment; a wildcard child is taken only when there is neither *)
(* of them.                                                                *)
(***************************************************************************)
C19_ChildPrecedence ==
    (ret.op = "lookup" /\ ret.method \in DOMAIN trees) =>
        \A n \in Nodes(trees[ret.method]) :
            \A k \in 1..Len(ReqSegs) : Precedence(n, ReqSegs[k])


(***************************************************************************)
(* Parameter names at one position.                                        *)
(***************************************************************************)
\* the patterns of the runs with parameter names: two names at the position
\* below the literal a, each as the last segment and followed by a literal
NamePatterns ==
    { <<"/", "a", "/", ":", "x">>,
      <<"/", "a", "/", ":", "y">>,
      <<"/", "a", "/", ":", "x", "/", "b">>,
      <<"/", "a", "/", ":", "y", "/", "b">> }

\* the request paths of these runs
NameQueries ==
    { <<"/", "a">>,
      <<"/", "a", "/", "c">>,
      <<"/", "a", "/", ":">>,
      <<"/", "a", "/", "c", "/", "b">>,
      <<"/", "a", "/", "c", "/", "c">> }

\* route registration with the patterns of NamePatterns
RegisterNames ==
    \E method \in Methods, path \in NamePatterns, handler \in Handlers :
        handle(method, path, handler)

\* a request with a path of NameQueries
RequestNames ==
    \E method \in Methods, path \in NameQueries : callLookup(method, path)

NextNames == RegisterNames \/ RequestNames \/ respond

\* the router with routes whose parameter names differ at one position
SpecNames == Init /\ [][NextNames]_vars

\* the patterns p and q lead to the same node with their first n segments:
\* equal literals, and a parameter where the other has a parameter
SameNode(p, q, n) ==
    /\ Len(p) >= n /\ Len(q) >= n
    /\ \A j \in 1..n : (IsParamSeg(p[j]) /\ IsParamSeg(q[j])) \/ p[j] = q[j]

\* the calls for a method whose pattern has a parameter at position k of p's
\* node path
ParamCallsAt(method, p, k) ==
    {i \in CallsOf(method) : SameNode(Segments(calls[i].path), p, k)}

\* the name of the parameter segment that was registered first at position k
FirstName(method, p, k) ==
    LET S == ParamCallsAt(method, p, k)
        i == CHOOSE i \in S : \A j \in S : i <= j
    IN  Tail(Segments(calls[i].path)[k])

\* at a parameter position of p a parameter segment with another name was
\* registered after the first one
NamesDiffer(method, p) ==
    \E k \in 1..Len(p) :
        /\ IsParamSeg(p[k])
        /\ \E i \in ParamCallsAt(method, p, k) :
              Tail(Segments(calls[i].path)[k]) # FirstName(method, p, k)

\* the calls for a method whose pattern ends at the node p ends at
CallsAtNode(method, p) ==
    {i \in CallsOf(method) :
        LET s == Segments(calls[i].path) IN Len(s) = Len(p) /\ SameNode(s, p, Len(p))}

(***************************************************************************)
(* C20: a parameter segment registered at a position that has a parameter  *)
(* child reuses the child, which keeps its first name. For a lookup that a *)
(* registered pattern of literal and parameter segments matches, the       *)
(* segment at each parameter position is bound under the name registered   *)
(* first at that position and under no other name, and the handler is the  *)
(* one registered last at the node, whatever name that registration used.  *)
(***************************************************************************)
C20_FirstNameKept ==
    ret.op = "lookup" =>
        \A b \in CallsOf(ret.method) :
            LET p == Segments(calls[b].path)
            IN  (Matches(p, ReqSegs) /\ NamesDiffer(ret.method, p)) =>
                  /\ ret.handler = LatestHandler(CallsAtNode(ret.method, p))
                  /\ DOMAIN ret.params =
                        {FirstName(ret.method, p, k) : k \in {j \in 1..Len(p) : IsParamSeg(p[j])}}
                  /\ \A k \in 1..Len(p) : IsParamSeg(p[k]) =>
                        Binds(ret.params, FirstName(ret.method, p, k), ReqSegs[k])


(***************************************************************************)
(* C21: lookup never returns not-found for a path that some route          *)
(* registered for the method matches in full, whatever other routes are    *)
(* registered and in whatever order.                                       *)
(***************************************************************************)
C21_MatchingRouteFound ==
    ret.op = "lookup" =>
        ( (\E i \in CallsOf(ret.method) : Matches(Segments(calls[i].path), ReqSegs))
            => ret.handler # NoHandler )


\* the pattern has further segments after a wildcard segment
AfterWildcard(p) == \E k \in 1..(Len(p) - 1) : IsWildSeg(p[k])

\* from node n and request segment k on, a lookup that takes a wildcard child
\* of n answers with that child's own handler and the rest of the path
WildcardTerminal(n, segments, k) ==
    LET m == matchChild(n, segments[k], EmptyMap)
    IN  m.child \in WildcardChildren(n) =>
            LET r == lookupLoop(n, segments, k, EmptyMap)
            IN  /\ r.handler = n.children[m.child].handler
                /\ Binds(r.params, n.children[m.child].param,
                         Join(SubSeq(segments, k, Len(segments)), "/"))

(***************************************************************************)
(* C22: a route with further segments after a wildcard segment is          *)
(* registered like any other, but no lookup returns its handler: a handler *)
(* that the method's routes carry only on such patterns is never returned, *)
(* and at every node, a lookup that takes the wildcard child answers with  *)
(* the wildcard child's own handler (nil when nothing was registered at    *)
(* it) and does not descend below it.                                      *)
(***************************************************************************)
C22_NothingBelowWildcard ==
    (ret.op = "lookup" /\ ret.method \in DOMAIN trees) =>
        /\ \A h \in Handlers :
              (\A i \in CallsOf(ret.method) :
                    calls[i].handler = h => AfterWildcard(Segments(calls[i].path)))
                 => ret.handler # h
        /\ \A n \in Nodes(trees[ret.method]) :
              \A k \in 1..Len(ReqSegs) : WildcardTerminal(n, ReqSegs, k)

\* only /a/*w/b is registered and the lookup of /a/c/b ends at the wildcard
\* node, which has no handler
C22_Witness ==
    /\ ret.op = "lookup"
    /\ CallsOf(ret.method) # {}
    /\ \A i \in CallsOf(ret.method) : calls[i].path = <<"/", "a", "/", "*", "w", "/", "b">>
    /\ ReqSegs = <<<<"a">>, <<"c">>, <<"b">>>>
    /\ ret.handler = NoHandler
    /\ Binds(ret.params, <<"w">>, <<"c", "/", "b">>)


(***************************************************************************)
(* Route groups (src/blaze.go): Engine.Group, Group.Group, Group.Use and   *)
(* Group.Handle. engine.groups holds the Group values made so far; a       *)
(* *Group is an index into it.                                             *)
(***************************************************************************)
\* the number of setup calls (Use, Group, Handle) an application with groups
\* makes
MaxSetup == 5

\* the prefixes of groups, and the route paths registered in groups
GroupPrefixes == {<<"/", "g">>}
GroupPaths == {<<"/", "a">>}

\* the route path registered through the Engine beside the groups
OutsidePaths == {<<"/", "g", "/", "a">>}

\* the request paths
GroupQueries ==
    OutsidePaths \cup {<<"/", "g", "/", "g", "/", "a">>}

\* the middleware handed to Engine.Use
OutsideMiddlewares == {"logger"}

\* the middleware handed to Group.Use
GroupMiddlewares == {"auth", "logger"}

\* New(), for an application that goes on to make groups
newGroupedEngine ==
    [middleware |-> << >>, closures |-> << >>, added |-> << >>,
     routes |-> << >>, served |-> noServe, groups |-> << >>]

RECURSIVE UsedIn(_)
\* the number of middleware given to the groups with Group.Use
UsedIn(groups) ==
    IF groups = << >> THEN 0
    ELSE Len(groups[Len(groups)].used) + UsedIn(SubSeq(groups, 1, Len(groups) - 1))

\* the setup calls made so far
SetupCalls ==
    Len(engine.added) + Len(engine.groups) + UsedIn(engine.groups) + Len(engine.routes)

\* Engine.Group: &Group{engine: e, prefix: prefix}
EngineGroup(prefix) ==
    /\ SetupCalls < MaxSetup
    /\ engine' = [engine EXCEPT
          !.groups = Append(@, [prefix |-> prefix, middleware |-> << >>,
                                inherited |-> << >>, used |-> << >>]),
          !.served = noServe]
    /\ UNCHANGED <<trees, calls, ret, inflight, http, memory, adapter>>

\* Group.Group: the nested group gets the joined prefix and a copy of the
\* middleware its parent has now
GroupGroup(g, prefix) ==
    /\ SetupCalls < MaxSetup
    /\ engine' = [engine EXCEPT
          !.groups = Append(@, [prefix |-> engine.groups[g].prefix \o prefix,
                                middleware |-> engine.groups[g].middleware,
                                inherited |-> engine.groups[g].inherited \o
                                              engine.groups[g].used,
                                used |-> << >>]),
          !.served = noServe]
    /\ UNCHANGED <<trees, calls, ret, inflight, http, memory, adapter>>

\* Group.Use
GroupUse(g, middleware) ==
    /\ SetupCalls < MaxSetup
    /\ engine' = [engine EXCEPT
          !.groups[g].middleware = @ \o middleware,
          !.groups[g].used = @ \o middleware,
          !.served = noServe]
    /\ UNCHANGED <<trees, calls, ret, inflight, http, memory, adapter>>

\* Engine.Use of an application with groups
GroupedUse(middleware) ==
    /\ SetupCalls < MaxSetup
    /\ engine' = [engine EXCEPT !.middleware = @ \o middleware,
                                !.added = @ \o middleware,
                                !.served = noServe]
    /\ UNCHANGED <<trees, calls, ret, inflight, http, memory, adapter>>

\* the route record of a Handle call: the handler given, the middleware the
\* Engine had been given before, and for a group route the group and the
\* middleware it had inherited and been given before
routeOf(method, prefix, path, handler, g) ==
    [method |-> method, path |-> prefix \o path, handler |-> handler,
     before |-> engine.added, group |-> g, prefix |-> prefix, rel |-> path,
     groupBefore |-> IF g = 0 THEN << >>
                     ELSE engine.groups[g].inherited \o engine.groups[g].used]

\* Group.Handle with the two loops exchanged: the engine middleware wrap the
\* handler first, the group middleware wrap the result
GroupHandle_engineInside(g, method, path, handler) ==
    /\ SetupCalls < MaxSetup
    /\ LET grp == engine.groups[g]
           w1  == wrapLoop(engine.closures, handler, engine.middleware,
                           Len(engine.middleware))
           w2  == wrapLoop(w1.closures, w1.handler, grp.middleware,
                           Len(grp.middleware))
       IN  /\ trees' = register(trees, method, grp.prefix \o path, w2.handler)
           /\ calls' = Append(calls, call(method, grp.prefix \o path, w2.handler))
           /\ engine' = [engine EXCEPT
                 !.closures = w2.closures,
                 !.routes = Append(@, routeOf(method, grp.prefix, path, handler, g)),
                 !.served = noServe]
    /\ UNCHANGED <<ret, inflight, http, memory, adapter>>

\* Group.Handle: the group middleware wrap the handler, the engine middleware
\* wrap the result, and the route goes to the router under g.prefix + path
GroupHandle(g, method, path, handler) ==
    /\ SetupCalls < MaxSetup
    /\ LET grp == engine.groups[g]
           w1  == wrapLoop(engine.closures, handler, grp.middleware,
                           Len(grp.middleware))
           w2  == wrapLoop(w1.closures, w1.handler, engine.middleware,
                           Len(engine.middleware))
       IN  /\ trees' = register(trees, method, grp.prefix \o path, w2.handler)
           /\ calls' = Append(calls, call(method, grp.prefix \o path, w2.handler))
           /\ engine' = [engine EXCEPT
                 !.closures = w2.closures,
                 !.routes = Append(@, routeOf(method, grp.prefix, path, handler, g)),
                 !.served = noServe]
    /\ UNCHANGED <<ret, inflight, http, memory, adapter>>

\* Engine.Handle of an application with groups
OutsideHandle(method, path, handler) ==
    /\ SetupCalls < MaxSetup
    /\ LET w == wrapLoop(engine.closures, handler, engine.middleware,
                         Len(engine.middleware))
       IN  /\ trees' = register(trees, method, path, w.handler)
           /\ calls' = Append(calls, call(method, path, w.handler))
           /\ engine' = [engine EXCEPT
                 !.closures = w.closures,
                 !.routes = Append(@, routeOf(method, << >>, path, handler, 0)),
                 !.served = noServe]
    /\ UNCHANGED <<ret, inflight, http, memory, adapter>>

\* the state after New() of an application with groups
InitGroups ==
    /\ trees = newRouter
    /\ calls = << >>
    /\ ret = noRet("new")
    /\ inflight = [g \in Goroutines |-> idle]
    /\ http = noRequest
    /\ engine = newGroupedEngine
    /\ store = newStore
    /\ callers = noCallers
    /\ adapter = noChat

\* the skips of a request: every middleware calls next, or one does not
SkipChoices == {{}} \cup {{m} : m \in GroupMiddlewares}

NextGroups ==
    \/ \E m \in OutsideMiddlewares : GroupedUse(<<m>>)
    \/ \E prefix \in GroupPrefixes : EngineGroup(prefix)
    \/ \E g \in 1..Len(engine.groups), prefix \in GroupPrefixes : GroupGroup(g, prefix)
    \/ \E g \in 1..Len(engine.groups), m \in GroupMiddlewares : GroupUse(g, <<m>>)
    \/ \E g \in 1..Len(engine.groups), path \in GroupPaths :
          GroupHandle(g, "GET", path, 1)
    \/ \E path \in OutsidePaths : OutsideHandle("GET", path, 2)
    \/ \E path \in GroupQueries, skips \in SkipChoices :
          EngineServeHTTP("GET", path, skips)

\* an Engine with groups that is given middleware and routes and serves requests
SpecGroups == InitGroups /\ [][NextGroups]_vars

\* the route a request for the method and the path is answered by: the one
\* registered last for them
ServedRoute ==
    LET S == RoutesFor(engine.served.method, engine.served.path)
    IN  engine.routes[CHOOSE i \in S : \A j \in S : j <= i]

(***************************************************************************)
(* C23: a route registered through a Group is stored under the             *)
(* concatenation of the prefixes of its enclosing groups and its path, and *)
(* a request to it runs the engine middleware in the order added, then the *)
(* middleware of the group in the order added, those copied from the       *)
(* parent first, then the handler; a route registered outside a group runs *)
(* no group middleware.                                                    *)
(***************************************************************************)
C23_GroupRoutes ==
    /\ \A i \in 1..Len(engine.routes) :
          /\ calls[i].path = engine.routes[i].prefix \o engine.routes[i].rel
          /\ engine.routes[i].group # 0 =>
                engine.routes[i].prefix = engine.groups[engine.routes[i].group].prefix
    /\ (engine.served.op = "request" /\ RoutesFor(engine.served.method, engine.served.path) # {}) =>
          engine.served.trace =
              ExpectedTrace(ServedRoute.before \o ServedRoute.groupBefore,
                            ServedRoute.handler, engine.served.skips)

\* a route of a nested group is requested: the engine's logger and the auth
\* copied from the parent group have run before the handler
C23_Witness ==
    /\ engine.served.op = "request"
    /\ engine.served.path = <<"/", "g", "/", "g", "/", "a">>
    /\ engine.served.skips = {}
    /\ RoutesFor(engine.served.method, engine.served.path) # {}
    /\ ServedRoute.group = 2
    /\ engine.groups[2].inherited = <<"auth">>
    /\ engine.served.trace =
          <<ranMiddleware("logger"), ranMiddleware("auth"), ranHandler(1)>>


\* what a request to the i-th registered route runs when every middleware
\* calls next
Chain(closures, i) == run(closures, calls[i].handler, {})

\* every registered route is wrapped by the middleware that the Engine, and
\* for a group route its group, had been given before the registration
WrappedAsRegistered ==
    \A i \in 1..Len(engine.routes) :
        Chain(engine.closures, i) =
            ExpectedTrace(engine.routes[i].before \o engine.routes[i].groupBefore,
                          engine.routes[i].handler, {})

\* a step leaves the wrapping of the routes registered before it as it was
WrappingKept ==
    \A i \in 1..Len(calls) :
        /\ i <= Len(calls') /\ calls'[i] = calls[i]
        /\ Chain(engine.closures', i) = Chain(engine.closures, i)

(***************************************************************************)
(* C24: middleware is bound to a route when the route is registered. A     *)
(* route runs the middleware given to the Engine (and to its group) before *)
(* its registration and no middleware given afterwards, a middleware is    *)
(* run for every route registered after it was given, and no later call    *)
(* changes the middleware wrapping a registered route.                     *)
(***************************************************************************)
C24_BoundAtRegistration == []WrappedAsRegistered /\ [][WrappingKept]_vars

\* the Engine was given a middleware after the requested route had been
\* registered, and the request ran the route's handler without it
C24_Witness ==
    /\ engine.served.op = "request"
    /\ RoutesFor(engine.served.method, engine.served.path) # {}
    /\ ServedRoute.before = << >>
    /\ engine.middleware = <<"logger">>
    /\ engine.served.skips = {}
    /\ engine.served.trace = <<ranHandler(ServedRoute.handler)>>


(***************************************************************************)
(* The Recovery middleware (src/middleware.go): the routes of the router   *)
(* are handlers wrapped by Recovery, and Router.ServeHTTP calls the        *)
(* closure Recovery returned.                                              *)
(***************************************************************************)
\* what the wrapped handler does: it writes nothing or answers with
\* c.String(code, "OK"), and then returns nil or an error, or panics
RecoveryBehaviours ==
    {[code |-> c, err |-> e, panics |-> FALSE] : c \in {0, 200}, e \in HandlerErrors} \cup
    {[code |-> c, err |-> NoError, panics |-> TRUE] : c \in {0, 200}}

\* Recovery line 35, return next(c): the wrapped handler runs; when it returns,
\* its error is the result err, when it panics err keeps its zero value
recoveryNext(b) ==
    /\ http.pc = "looked"
    /\ http.handler # NoHandler
    /\ http' = [http EXCEPT
          !.pc = IF b.panics THEN "panicking" ELSE "returning",
          !.invoked = Append(@, [handler |-> http.handler, params |-> http.params,
                                 code |-> b.code, err |-> b.err, panics |-> b.panics]),
          !.w = IF b.code = 0 THEN @ ELSE String(@, b.code, "OK"),
          !.err = IF b.panics THEN NoError ELSE b.err]
    /\ UNCHANGED <<trees, calls, ret, inflight, engine, memory, adapter>>

\* Recovery lines 29-34, the deferred function: recover() ends a panic and
\* http.Error writes the 500 answer; then the closure returns err
recoveryDeferred ==
    /\ http.pc \in {"panicking", "returning"}
    /\ http' = [http EXCEPT
          !.pc = "returned",
          !.w = IF http.pc = "panicking"
                THEN Error(@, "Internal Server Error", 500) ELSE @]
    /\ UNCHANGED <<trees, calls, ret, inflight, engine, memory, adapter>>

NextRecovery ==
    \/ \E method \in Methods, path \in ServeQueries : serveLookup(method, path)
    \/ serveNotFound
    \/ \E b \in RecoveryBehaviours : recoveryNext(b)
    \/ recoveryDeferred
    \/ serveError
    \/ serveFinish

\* the router serves requests to handlers wrapped by Recovery
SpecRecovery == InitHTTP /\ [][NextRecovery]_vars

\* the number of times text was written to the response body
Written(body, text) == Cardinality({k \in 1..Len(body) : body[k] = text})

(***************************************************************************)
(* C25: when a handler wrapped by Recovery panics, the panic ends in the   *)
(* middleware, which returns a nil error, and the response is a 500        *)
(* Internal Server Error written exactly once, with no second error        *)
(* response from Router.ServeHTTP; when the handler does not panic,        *)
(* Recovery returns the handler's error unchanged.                         *)
(***************************************************************************)
C25_RecoveryAnswers ==
    (http.pc \in {"returned", "done", "sent"} /\ http.invoked # << >>) =>
        LET b == http.invoked[1]
        IN  IF b.panics
            THEN /\ http.err = NoError
                 /\ http.w.status = 500
                 /\ Written(http.w.body, "Internal Server Error") = 1
                 /\ Written(http.w.body, "\n") = 1
            ELSE http.err = b.err


(***************************************************************************)
(* Concurrent use of the memory store: goroutines that set, count and get  *)
(* one key while the clock runs.                                           *)
(***************************************************************************)
\* the key, the value and the ttls of the concurrent calls
RaceKeys == {"k"}
RaceValues == {number(2)}
RaceTTLs == {0, 1}

NextRace ==
    \/ \E g \in Goroutines :
          \/ \E action \in {"set", "get", "incr"}, key \in RaceKeys,
                value \in RaceValues, ttl \in RaceTTLs :
                toolCall(g, action, key, value, IF action = "set" THEN ttl ELSE 0)
          \/ storeLock(g) \/ storeRLock(g)
          \/ setBody(g)
          \/ getBody(g) \/ getRUnlock(g) \/ getLock(g) \/ getDelete(g) \/ getRLock(g)
          \/ incrRead(g) \/ incrWrite(g)
          \/ storeReturn(g)
    \/ tick

\* goroutines that call set, get and incr on one key concurrently
SpecRace == Init /\ [][NextRace]_vars

\* the entry of key is in the store and its expiry, if it has one, has not passed
Fresh(key) ==
    /\ key \in DOMAIN store.data
    /\ ~(store.data[key].ExpiresAt # ZeroTime /\ store.now > store.data[key].ExpiresAt)

\* a step does not take an entry that is not expired out of the store while
\* a Get is at its delete
GetKeepsFresh ==
    \A g \in Goroutines :
        (callers.procs[g].pc = "delete" /\ callers'.procs[g].pc = "rerlock") =>
            (Fresh(callers.procs[g].key) => callers.procs[g].key \in DOMAIN store'.data)

(***************************************************************************)
(* C26: under concurrent use, get never removes an entry that is not       *)
(* expired: when a get has seen an expired entry and a concurrent set or   *)
(* incr stores a fresh value for the key before the get performs its       *)
(* delete, the fresh value is still in the store after the delete.         *)
(***************************************************************************)
C26_GetKeepsFresh == [][GetKeepsFresh]_vars


(***************************************************************************)
(* Counters with a TTL: one caller sets a number with or without a TTL,    *)
(* counts it up and down and gets it while time passes.                    *)
(***************************************************************************)
\* the key and the ttls of the set action, and the number it stores
ExpiryKeys == {"k"}
ExpiryTTLs == {0, 1}
ExpiryValues == {number(5)}

\* the calls of the memory tool that the caller makes
callExpiry ==
    \/ \E key \in ExpiryKeys, value \in ExpiryValues, ttl \in ExpiryTTLs :
          toolCall(Caller, "set", key, value, ttl)
    \/ \E action \in {"incr", "decr"}, key \in ExpiryKeys, value \in CounterValues :
          toolCall(Caller, action, key, value, 0)
    \/ \E key \in ExpiryKeys : toolCall(Caller, "get", key, nilValue, 0)

NextExpiry ==
    \/ callExpiry
    \/ storeLock(Caller) \/ storeRLock(Caller)
    \/ setBody(Caller)
    \/ getBody(Caller) \/ getRUnlock(Caller) \/ getLock(Caller)
    \/ getDelete(Caller) \/ getRLock(Caller)
    \/ incrRead(Caller) \/ incrWrite(Caller)
    \/ storeReturn(Caller)
    \/ tick

\* one caller sets, counts and gets a key while time passes
SpecExpiry == Init /\ [][NextExpiry]_vars

\* an Incr that has stored its entry and is about to return
IncrReturns(p) == p.op = "Incr" /\ p.pc = "unlock"

MaxList == 3

\* the keys of the list actions (nothing is appended to "j"), the values
\* appended, and the start and end arguments of lrange
ListKeys == {"k", "j"}
ListValues == {stringValue("a"), stringValue("b")}
Indices == (0 - (MaxList + 1))..(MaxList + 1)

\* the handler of NewMemoryTool, case "lrange": the end handed to ListRange
lrangeEnd(End) == IF End # 0 THEN End ELSE 0 - 1

\* list[start:end] of Go, for 0 <= start <= end <= len(list)
Slice(list, start, end) == SubSeq(list, start + 1, end)

\* MemoryStore.ListRange: the items returned
ListRange(lists, key, start, end) ==
    IF key \notin DOMAIN lists THEN << >>
    ELSE LET list == lists[key]
             s1 == IF start < 0 THEN Len(list) + start ELSE start
             e1 == IF end < 0 THEN Len(list) + end + 1 ELSE end + 1
             s2 == IF s1 < 0 THEN 0 ELSE s1
             e2 == IF e1 > Len(list) THEN Len(list) ELSE e1
         IN  IF s2 >= e2 THEN << >> ELSE Slice(list, s2, e2)

\* MemoryStore.ListAppend: the lists after the call
ListAppend(lists, key, value) ==
    MapPut(lists, key,
           Append(IF key \in DOMAIN lists THEN lists[key] ELSE << >>, value))

\* the append action of the tool, as one caller makes it
listAppend(key, value) ==
    /\ \A g \in Goroutines : callers.procs[g].pc = "idle"
    /\ Len(IF key \in DOMAIN store.lists THEN store.lists[key] ELSE << >>) < MaxList
    /\ store' = [store EXCEPT !.lists = ListAppend(@, key, value)]
    /\ callers' = [callers EXCEPT !.last =
          [op |-> "ListAppend", key |-> key, start |-> 0, end |-> 0,
           items |-> << >>, length |-> Len(ListAppend(store.lists, key, value)[key])]]
    /\ UNCHANGED <<trees, calls, ret, inflight, http, engine, adapter>>

\* the lrange action of the tool with the start and end of its input
listRange(key, start, end) ==
    /\ \A g \in Goroutines : callers.procs[g].pc = "idle"
    /\ LET items == ListRange(store.lists, key, start, lrangeEnd(end))
       IN  callers' = [callers EXCEPT !.last =
              [op |-> "ListRange", key |-> key, start |-> start, end |-> end,
               items |-> items, length |-> Len(items)]]
    /\ UNCHANGED <<trees, calls, ret, inflight, http, engine, store, adapter>>

NextList ==
    \/ \E value \in ListValues : listAppend("k", value)
    \/ \E key \in ListKeys, start \in Indices, end \in Indices :
          listRange(key, start, end)

\* one caller appends to a list and asks for ranges of it
SpecList == Init /\ [][NextList]_vars

\* the position in the list that the index i names: negative indices count
\* from the end
Position(list, i) == IF i < 0 THEN Len(list) + i + 1 ELSE i + 1

\* the elements at the positions of s through e, both inclusive, that the
\* list has
Range(list, s, e) ==
    LET lo == IF Position(list, s) < 1 THEN 1 ELSE Position(list, s)
        hi == IF Position(list, e) > Len(list) THEN Len(list) ELSE Position(list, e)
    IN  SubSeq(list, lo, hi)

(***************************************************************************)
(* C28: lrange with start s and end e returns exactly the elements with    *)
(* the indices s through e inclusive, negative indices counting from the   *)
(* end and bounds outside the list clamped to it, and nothing when the     *)
(* range is empty or the key has no list, for every pair (s, e).           *)
(***************************************************************************)
C28_RangeInclusive ==
    callers.last.op = "ListRange" =>
        LET p == callers.last
        IN  /\ p.length = Len(p.items)
            /\ p.items = IF p.key \in DOMAIN store.lists
                         THEN Range(store.lists[p.key], p.start, p.end)
                         ELSE << >>


(***************************************************************************)
(* Streaming (src/blaze.go streamOpenAIResponse,                           *)
(* src/adapter/anthropic_adapter.go streamAnthropicResponse,               *)
(* src/context.go StreamJSON): the goroutine that sends the events on the  *)
(* unbuffered channel ch, and StreamJSON that ranges over it. A send and   *)
(* the receive that takes it are one step.                                 *)
(***************************************************************************)
\* the tools whose results are streamed
StreamTools == {"echo", "fail"}
StreamNames == SeqsUpTo(StreamTools, MaxBlocks) \ {<< >>}

\* the toolResults the adapters hand over for tool calls of the names
openaiResults(names) ==
    [j \in 1..Len(names) |-> toolMessage(functionCall("a", names[j]))]
anthropicResults(names) ==
    [j \in 1..Len(names) |-> executeToolBlock(toolUse("a", names[j]))]

\* OpenAIStreamChunk with its one choice
OpenAIStreamChunk(role, content, finishReason) ==
    [Object |-> "chat.completion.chunk", Role |-> role, Content |-> content,
     FinishReason |-> finishReason]

\* AnthropicStreamEvent; no delta is written as the type ""
AnthropicStreamEvent(type, index, deltaType, deltaText, stopReason) ==
    [Type |-> type, Index |-> index, DeltaType |-> deltaType,
     DeltaText |-> deltaText, StopReason |-> stopReason]

\* ch := make(chan any); go func() {...}(); ctx.StreamJSON(ch) has set its
\* headers and waits in range dataChan
newStream(api, toolResults) ==
    [pc |-> "first", api |-> api, toolResults |-> toolResults, i |-> 1,
     closed |-> FALSE, received |-> << >>,
     reader |-> "range", data |-> << >>, written |-> << >>, err |-> ""]

\* the loop over the results in the order of the last result first
rangeResult_backwards(toolResults, i) == toolResults[Len(toolResults) + 1 - i]

\* for _, result := range toolResults: the result of iteration i
rangeResult(toolResults, i) == toolResults[i]

\* ch <- event in the goroutine, taken by data := range dataChan
send(event, pc, i) ==
    /\ ~adapter.closed
    /\ adapter.reader = "range"
    /\ adapter' = [adapter EXCEPT !.pc = pc, !.i = i,
                                  !.received = Append(@, event),
                                  !.reader = "encode", !.data = event]
    /\ UNCHANGED <<trees, calls, ret, inflight, http, engine, memory>>

\* streamOpenAIResponse lines 487-501: the initial chunk with the role
openaiSendRole ==
    /\ adapter.api = "openai" /\ adapter.pc = "first"
    /\ send(OpenAIStreamChunk("assistant", << >>, ""), "results", 1)

\* streamOpenAIResponse lines 504-520: one iteration of the loop
openaiSendContent ==
    /\ adapter.api = "openai" /\ adapter.pc = "results"
    /\ adapter.i <= Len(adapter.toolResults)
    /\ LET result == rangeResult(adapter.toolResults, adapter.i)
       IN  send(OpenAIStreamChunk("", Append(result.Content, "\n"), ""),
                "results", adapter.i + 1)

\* streamOpenAIResponse lines 523-536: the final chunk
openaiSendFinal ==
    /\ adapter.api = "openai" /\ adapter.pc = "results"
    /\ adapter.i > Len(adapter.toolResults)
    /\ send(OpenAIStreamChunk("", << >>, "stop"), "close", adapter.i)

\* streamAnthropicResponse lines 271-280: message_start
anthropicSendStart ==
    /\ adapter.api = "anthropic" /\ adapter.pc = "first"
    /\ send(AnthropicStreamEvent("message_start", 0, "", << >>, ""), "block", 1)

\* streamAnthropicResponse lines 283-290: content_block_start
anthropicSendBlockStart ==
    /\ adapter.api = "anthropic" /\ adapter.pc = "block"
    /\ send(AnthropicStreamEvent("content_block_start", 0, "", << >>, ""),
            "results", 1)

\* streamAnthropicResponse lines 293-302: one iteration of the loop; the Go
\* index of the iteration is i - 1
anthropicSendDelta ==
    /\ adapter.api = "anthropic" /\ adapter.pc = "results"
    /\ adapter.i <= Len(adapter.toolResults)
    /\ LET result == rangeResult(adapter.toolResults, adapter.i)
       IN  send(AnthropicStreamEvent("content_block_delta", adapter.i - 1,
                                     result.Type, result.Content, ""),
                "results", adapter.i + 1)

\* streamAnthropicResponse lines 305-308: message_stop
anthropicSendStop ==
    /\ adapter.api = "anthropic" /\ adapter.pc = "results"
    /\ adapter.i > Len(adapter.toolResults)
    /\ send(AnthropicStreamEvent("message_stop", 0, "", << >>, "end_turn"),
            "close", adapter.i)

\* defer close(ch): the goroutine returns
streamClose ==
    /\ adapter.pc = "close"
    /\ adapter' = [adapter EXCEPT !.pc = "exit", !.closed = TRUE]
    /\ UNCHANGED <<trees, calls, ret, inflight, http, engine, memory>>

\* StreamJSON: encoder.Encode(data) and Flush, the client reads
encodeWritten ==
    /\ adapter.reader = "encode"
    /\ adapter' = [adapter EXCEPT !.reader = "range",
                                  !.written = Append(@, adapter.data)]
    /\ UNCHANGED <<trees, calls, ret, inflight, http, engine, memory>>

\* StreamJSON: encoder.Encode(data) returns the error of the Write to a
\* client that went away, and StreamJSON returns it
encodeFails ==
    /\ adapter.reader = "encode"
    /\ adapter' = [adapter EXCEPT !.reader = "returned", !.err = "error"]
    /\ UNCHANGED <<trees, calls, ret, inflight, http, engine, memory>>

\* StreamJSON: range dataChan ends on the closed channel, return nil
rangeEnds ==
    /\ adapter.reader = "range" /\ adapter.closed
    /\ adapter' = [adapter EXCEPT !.reader = "returned", !.err = "nil"]
    /\ UNCHANGED <<trees, calls, ret, inflight, http, engine, memory>>

\* the state when a stream function has started its goroutine
InitStream ==
    /\ trees = newRouter
    /\ calls = << >>
    /\ ret = noRet("new")
    /\ inflight = [g \in Goroutines |-> idle]
    /\ http = noRequest
    /\ engine = newEngine
    /\ store = newStore
    /\ callers = noCallers
    /\ \E names \in StreamNames :
          \/ adapter = newStream("openai", openaiResults(names))
          \/ adapter = newStream("anthropic", anthropicResults(names))

\* the steps of the goroutine
Producer ==
    \/ openaiSendRole
    \/ openaiSendContent
    \/ openaiSendFinal
    \/ anthropicSendStart
    \/ anthropicSendBlockStart
    \/ anthropicSendDelta
    \/ anthropicSendStop
    \/ streamClose

\* the steps of StreamJSON that are not the receive of a send
Consumer ==
    \/ encodeWritten
    \/ encodeFails
    \/ rangeEnds

NextStream == Producer \/ Consumer

\* one streamed response
SpecStream == InitStream /\ [][NextStream]_vars

\* the contents of the results, in result order
Contents(toolResults) == [j \in 1..Len(toolResults) |-> toolResults[j].Content]

\* what makes an event: the role chunk, a content chunk, the final chunk, or
\* the type of an Anthropic event
Label(event) ==
    IF "Object" \in DOMAIN event
    THEN IF event.Role = "assistant" /\ event.FinishReason = "" THEN <<"role">>
         ELSE IF event.FinishReason = "stop" THEN <<"final">>
         ELSE IF event.FinishReason = "" /\ event.Role = ""
              THEN <<"content", SubSeq(event.Content, 1, Len(event.Content) - 1)>>
         ELSE <<"other">>
    ELSE IF event.Type = "content_block_delta" THEN <<event.Type, event.DeltaText>>
         ELSE <<event.Type>>

Labels(events) == [j \in 1..Len(events) |-> Label(events[j])]

\* the fixed order of the events for the results
Order(api, toolResults) ==
    IF api = "openai"
    THEN <<<<"role">>>> \o
         [j \in 1..Len(toolResults) |-> <<"content", toolResults[j].Content>>] \o
         <<<<"final">>>>
    ELSE <<<<"message_start">>, <<"content_block_start">>>> \o
         [j \in 1..Len(toolResults) |->
             <<"content_block_delta", toolResults[j].Content>>] \o
         <<<<"message_stop">>>>

\* s is the start of t
IsPrefix(s, t) == Len(s) <= Len(t) /\ s = SubSeq(t, 1, Len(s))

(***************************************************************************)
(* C29: the producer sends its events in the fixed order (OpenAI: the role *)
(* chunk, one content chunk per tool result in result order, one final     *)
(* chunk with finish_reason stop; Anthropic: message_start,                *)
(* content_block_start, one content_block_delta per result in order,       *)
(* message_stop); the channel is closed only after the final event;        *)
(* StreamJSON writes the events in the order sent and returns nil only     *)
(* after the close.                                                        *)
(***************************************************************************)
C29_StreamOrder ==
    LET order == Order(adapter.api, adapter.toolResults)
    IN  /\ IsPrefix(Labels(adapter.received), order)
        /\ adapter.closed => Labels(adapter.received) = order
        /\ IsPrefix(adapter.written, adapter.received)
        /\ Len(adapter.received) - Len(adapter.written) <= 1
        /\ adapter.err = "nil" => adapter.closed /\ adapter.written = adapter.received

\* a producer has streamed two different results to the end
C29_Witness ==
    /\ adapter.err = "nil"
    /\ Len(adapter.toolResults) = 2
    /\ adapter.toolResults[1] # adapter.toolResults[2]
    /\ Len(adapter.written) = Len(adapter.toolResults) +
                               (IF adapter.api = "openai" THEN 2 ELSE 3)


\* the scheduler runs a goroutine that can take a step: the producer is not
\* held back while StreamJSON receives, and StreamJSON is not held back
FairStream == SpecStream /\ WF_vars(Producer) /\ WF_vars(Consumer)

(***************************************************************************)
(* C30: the goroutine that produces a streaming response always            *)
(* terminates: each of its sends is received and the channel is closed,    *)
(* also when StreamJSON returned early with the error of an event it could *)
(* not encode or write.                                                    *)
(***************************************************************************)
C30_ProducerTerminates == <>(adapter.pc = "exit" /\ adapter.closed)

====
